---- MODULE Spec2Model ----
(***************************************************************************)
(* A model of the orchestration core of SLMSwarm (Project Hydra-Consensus). *)
(*                                                                         *)
(*   CheckpointManager   src/orchestration/checkpointing.py                *)
(*   ConsensusEngine     src/extensions/consensus.py                       *)
(*                                                                         *)
(* Each component has its own specification over the shared variables; the *)
(* variables of the other components stay at their initial value.          *)
(***************************************************************************)
EXTENDS Integers, Sequences, FiniteSets, TLC

VARIABLES
    \* ---- CheckpointManager: the checkpoint directory and one running create
    now,        \* the wall clock, [sec, half]: datetime.utcnow()
    files,      \* checkpoint_<id>.pkl for every id: absent, partial or complete
    mtime,      \* st_mtime of every snapshot file (0 when there is none)
    latest,     \* latest.json: [exists, text]
    pc,         \* position of the running create_checkpoint, 0 = no call running
    cur,        \* locals of the running (or last) create_checkpoint
    calls,      \* history: the ids of the create_checkpoint calls that ended
    all_clean,  \* history: every call so far returned and every unlink succeeded
    obs,        \* the result of the last load / restore / list
    \* ---- ConsensusEngine.generate_candidates
    g_pc,       \* "idle", "running", "done"
    g_approaches, \* the approaches of the batch
    g_calls,    \* one record per _generate_single_candidate coroutine
    g_uuid,     \* number of uuid4 values drawn so far
    g_result,   \* what generate_candidates did: [kind, value, timed_out]
    \* ---- ConsensusEngine.cross_verify
    v_pc,       \* "idle", "running", "done"
    v_candidates, \* the input candidates
    v_calls,    \* one record per _verify_candidate coroutine
    v_result,   \* what cross_verify did: [kind, value, timed_out]
    \* ---- ConsensusEngine.consensus_vote and _select_winner
    vt_pc,      \* "idle", "judging", "done"
    vt_args,    \* the arguments: [candidates, verifications]
    vt_passing, \* passing_candidates, after the fallback of lines 267-270
    vt_judge,   \* the judge: [pending prompts, calls issued, content answered]
    vt_result,  \* what consensus_vote did: [kind, value]
    sw,         \* the last direct _select_winner call: [votes, candidates, result]
    \* ---- HydraControl._execute_task and TaskDispatcher.execute_task
    task_status,        \* task.status of every task
    active_episodes,    \* EpisodicMemory.active_episodes: episode id -> episode
    e_uuid,             \* number of episode ids drawn so far
    d_run,              \* the dispatch cycle of every task: its position and locals
    execution_metrics,  \* HydraControl.execution_metrics
    \* ---- MultiModelRouter
    complexity_cache,   \* MultiModelRouter._complexity_cache
    r_seen,             \* for each remembered task: the first answer of
                        \* route_task, and whether it was routed again
    r_last,             \* the latest call of route_task: [task, role]
    \* ---- StateBus
    message_queue,      \* StateBus.message_queue
    message_files,      \* the ids with a file <id>.json in messages_dir
    subscribers,        \* StateBus.subscribers: role -> queue
    queues,             \* every asyncio.Queue made so far: what was put on it
    handles,            \* per role: the queues its first and its latest
                        \* subscribe returned, and how many messages were
                        \* published before it subscribed again
    published,          \* every publish so far: [message, roles subscribed then]
    b_obs,              \* what the latest get_messages or clear_old_messages did
    \* ---- EvolutionaryRefiner.refine
    rf_pc,              \* "idle", "loop", "done"
    rf_args,            \* [initial_code, criteria, max_generations]
    current_best,       \* the incumbent
    generation,         \* the loop counter
    rf_hist,            \* history: generations evaluated, every incumbent's
                        \* fitness, the best of the latest generation
    rf_result           \* what refine returned

ckpt_vars == <<now, files, mtime, latest, pc, cur, calls, all_clean, obs>>
gen_vars == <<g_pc, g_approaches, g_calls, g_uuid, g_result>>
ver_vars == <<v_pc, v_candidates, v_calls, v_result>>
cons_vars == <<gen_vars, ver_vars>>
vote_vars == <<vt_pc, vt_args, vt_passing, vt_judge, vt_result, sw>>
disp_vars == <<task_status, active_episodes, e_uuid, d_run, execution_metrics>>
route_vars == <<complexity_cache, r_seen, r_last>>
bus_vars ==
    <<message_queue, message_files, subscribers, queues, handles, published, b_obs>>
refine_vars == <<rf_pc, rf_args, current_best, generation, rf_hist, rf_result>>
vars ==
    <<ckpt_vars, cons_vars, vote_vars, disp_vars, route_vars, bus_vars, refine_vars>>

\* What the operations of one component leave alone.
not_ckpt ==
    <<cons_vars, vote_vars, disp_vars, route_vars, bus_vars, refine_vars>>
not_cons ==
    <<ckpt_vars, vote_vars, disp_vars, route_vars, bus_vars, refine_vars>>
not_vote ==
    <<ckpt_vars, cons_vars, disp_vars, route_vars, bus_vars, refine_vars>>
not_disp ==
    <<ckpt_vars, cons_vars, vote_vars, route_vars, bus_vars, refine_vars>>
not_route ==
    <<ckpt_vars, cons_vars, vote_vars, disp_vars, bus_vars, refine_vars>>
not_bus ==
    <<ckpt_vars, cons_vars, vote_vars, disp_vars, route_vars, refine_vars>>
not_refine == <<ckpt_vars, cons_vars, vote_vars, disp_vars, route_vars, bus_vars>>

(***************************************************************************)
(* Bounds of the model.                                                    *)
(***************************************************************************)
\* The clock runs over the seconds 0..MaxSec.
MaxSec == 2
\* At most MaxCreates calls of create_checkpoint are started.
MaxCreates == 3
\* The retention limit K. The source sets self.max_checkpoints = 10; it is an
\* attribute of the manager, and the model runs the same code with a smaller K.
max_checkpoints == 2
\* A batch has at most MaxApproaches approaches.
MaxApproaches == 3
\* cross_verify gets at most MaxCandidates candidates.
MaxCandidates == 3
\* consensus_vote gets at most MaxVerifications verification results.
MaxVerifications == 2
\* _select_winner gets at most MaxVotes votes.
MaxVotes == 3
\* A description has at most MaxWords words before its filler words.
MaxWords == 2
\* At most MaxPublish messages are published.
MaxPublish == 2
\* clear_old_messages is called with max_age_hours in 0..MaxAgeHours, on
\* files up to one hour older than that.
MaxAgeHours == 1
\* The refiner runs with max_generations in 0..MaxGenerations. The source
\* sets self.max_generations = 10; it is an attribute of the refiner.
MaxGenerations == 2

(***************************************************************************)
(* Sequence helpers.                                                       *)
(***************************************************************************)
Range(s) == {s[i] : i \in 1..Len(s)}

SeqsUpTo(S, n) == UNION {[1..k -> S] : k \in 0..n}

Last(s) == s[Len(s)]

\* The set S of integers as an ascending sequence: sorted(...).
RECURSIVE SortedSeq(_)
SortedSeq(S) ==
    IF S = {} THEN <<>>
    ELSE LET m == CHOOSE x \in S : \A y \in S : x <= y
         IN <<m>> \o SortedSeq(S \ {m})

(***************************************************************************)
(* Tasks and their serialisation (core/models.py, checkpointing.py).       *)
(***************************************************************************)
TaskFields ==
    {"id", "title", "description", "status", "priority", "assigned_agent",
     "dependencies", "blocked_by", "created_at", "started_at", "completed_at",
     "metadata"}

\* The defaults of the fields of Task (None is "none"; a required field has no
\* default and a dict without it does not validate).
FieldDefault(field) ==
    CASE field = "status" -> "pending"
      [] field = "priority" -> "medium"
      [] field \in {"assigned_agent", "started_at", "completed_at"} -> "none"
      [] field \in {"dependencies", "blocked_by"} -> <<>>
      [] field = "created_at" -> "utcnow"
      [] field = "metadata" -> "{}"
      [] OTHER -> "required"

\* Task(id=..., title=..., ...): a task with the given fields, the others default.
Task(id, status, agent, dependencies, metadata) ==
    [id |-> id, title |-> "title", description |-> "description",
     status |-> status, priority |-> "high", assigned_agent |-> agent,
     dependencies |-> dependencies, blocked_by |-> <<>>,
     created_at |-> "t0", started_at |-> "none", completed_at |-> "none",
     metadata |-> metadata]

\* task.model_dump(): the dict of the task's fields, a set of <<key, value>>.
serialize_task(task) == {<<k, task[k]>> : k \in TaskFields}

\* dict.get(key, default) on such a dict.
DictGet(d, key, default) ==
    IF \E kv \in d : kv[1] = key
    THEN (CHOOSE kv \in d : kv[1] = key)[2]
    ELSE default

\* A deserialiser that forgets the status field (every task comes back pending).
deserialize_task_drops_status(task_data) ==
    [f \in TaskFields |->
        IF f = "status" THEN FieldDefault(f)
        ELSE DictGet(task_data, f, FieldDefault(f))]

\* Task(**task_data): fields absent from the dict take the model's defaults.
deserialize_task(task_data) ==
    [f \in TaskFields |-> DictGet(task_data, f, FieldDefault(f))]

\* The (tasks, global_state) arguments create_checkpoint is called with.
Inputs ==
    { [tasks |-> <<>>, global_state |-> "g1"],
      [tasks |-> << Task("t1", "completed", "architect", <<>>, "{}"),
                    Task("t2", "in_progress", "none", <<"t1">>, "{language: python}") >>,
       global_state |-> "g2"] }

(***************************************************************************)
(* The checkpoint directory.                                               *)
(***************************************************************************)
\* strftime("%Y%m%d_%H%M%S"): the id keeps the second and drops the rest.
checkpoint_id(t) == t.sec

Ids == 0..MaxSec

NoFile == [st |-> "absent", data |-> <<>>]

\* A file opened with 'wb' and not yet completely written.
PartialFile == [st |-> "partial", data |-> <<>>]

CompleteFile(data) == [st |-> "complete", data |-> data]

\* glob("checkpoint_*.pkl")
glob(fs) == {i \in Ids : fs[i].st # "absent"}

\* checkpoint_data of create_checkpoint.
checkpoint_data(id, tasks, global_state) ==
    [id |-> id,
     tasks |-> [i \in 1..Len(tasks) |-> serialize_task(tasks[i])],
     global_state |-> global_state]

\* latest.json
NoLatest == [exists |-> FALSE, text |-> <<>>]

\* open(latest, 'w'): the file exists and is empty.
EmptyLatest == [exists |-> TRUE, text |-> <<>>]

\* write_text(checkpoint_id)
LatestOf(id) == [exists |-> TRUE, text |-> <<id>>]

\* The steps of create_checkpoint's try block, pointer first (the reverse order).
create_steps_pointer_first ==
    <<"latest_open", "latest_write", "open", "dump", "cleanup", "return">>

\* The steps of create_checkpoint's try block, in program order.
create_steps ==
    <<"open", "dump", "latest_open", "latest_write", "cleanup", "return">>

\* sorted(glob, key=st_mtime, reverse=True)[max_checkpoints + 1:]
old_checkpoints_keeps_one_more(fs, mt) ==
    {i \in glob(fs) :
        Cardinality({j \in glob(fs) : mt[j] > mt[i]}) >= max_checkpoints + 1}

\* sorted(glob, key=st_mtime)[max_checkpoints:]: a cleanup that keeps the
\* oldest files.
old_checkpoints_oldest_first(fs, mt) ==
    {i \in glob(fs) :
        Cardinality({j \in glob(fs) : mt[j] < mt[i]}) >= max_checkpoints}

\* sorted(glob, key=st_mtime, reverse=True)[max_checkpoints:]
old_checkpoints(fs, mt) ==
    {i \in glob(fs) :
        Cardinality({j \in glob(fs) : mt[j] > mt[i]}) >= max_checkpoints}

\* The largest modification time among the snapshot files on disk.
Newest(fs, mt) ==
    LET stamps == {mt[i] : i \in glob(fs)} \cup {0}
    IN CHOOSE m \in stamps : \A x \in stamps : x <= m

NoObs == [op |-> "none", arg |-> <<>>, result |-> [kind |-> "none"]]

\* cur: the id, the data and the arguments of the call, the pointer as the call
\* found it, whether an unlink failed, and how and where the call ended.
NoCur ==
    [id |-> 0, data |-> <<>>, tasks |-> <<>>, global_state |-> "g1",
     latest0 |-> NoLatest, delfail |-> FALSE, outcome |-> "none", at |-> ""]

CkptInit ==
    /\ now = [sec |-> 0, half |-> FALSE]
    /\ files = [i \in Ids |-> NoFile]
    /\ mtime = [i \in Ids |-> 0]
    /\ latest = NoLatest
    /\ pc = 0
    /\ cur = NoCur
    /\ calls = <<>>
    /\ all_clean = TRUE
    /\ obs = NoObs

\* The consensus engine before any call.
NoResult == [kind |-> "none", value |-> <<>>, timed_out |-> FALSE]

GenIdle ==
    /\ g_pc = "idle" /\ g_approaches = <<>> /\ g_calls = <<>> /\ g_uuid = 0
    /\ g_result = NoResult

VerIdle ==
    /\ v_pc = "idle" /\ v_candidates = <<>> /\ v_calls = <<>>
    /\ v_result = NoResult

\* consensus_vote has not been called; _select_winner has not been called.
NoVoteResult == [kind |-> "none", value |-> <<>>, error |-> ""]

NoJudge == [pending |-> <<>>, calls |-> 0, content |-> {}]

NoSelect == [op |-> "none", votes |-> <<>>, candidates |-> <<>>,
             result |-> [kind |-> "none"]]

VoteIdle ==
    /\ vt_pc = "idle"
    /\ vt_args = [candidates |-> <<>>, verifications |-> <<>>]
    /\ vt_passing = <<>>
    /\ vt_judge = NoJudge
    /\ vt_result = NoVoteResult
    /\ sw = NoSelect

\* The tasks posted to the control plane; each is dispatched once.
Tasks == {"task_001", "task_002"}

\* models.py 20-26.
TaskStatus == {"pending", "in_progress", "completed", "failed", "blocked"}

\* The capability calls a dispatch cycle has issued so far.
NoCalls == [generator |-> 0, verifier |-> 0, judge |-> 0, recall |-> 0, store |-> 0]

\* execute_task has not returned yet.
NoDispatchResult == [success |-> FALSE, error |-> "", winner_id |-> 0, given |-> FALSE]

\* No ConsensusResult has been built.
NoConsensusResult == [given |-> FALSE, winner_candidate_id |-> 0, all_votes |-> <<>>,
                      total_candidates |-> 0, total_votes |-> 0, winning_score |-> 0]

\* _execute_task(task) before its first statement; episode_id 0 stands for
\* None (line 176).
NoRun ==
    [pc |-> "unposted", episode_id |-> 0, recall |-> "none", patterns |-> <<>>,
     candidates |-> <<>>, verifications |-> <<>>,
     consensus_result |-> NoConsensusResult,
     result |-> NoDispatchResult, calls |-> NoCalls, stages |-> <<>>]

DispIdle ==
    /\ task_status = [t \in Tasks |-> "pending"]
    /\ active_episodes = <<>>
    /\ e_uuid = 0
    /\ d_run = [t \in Tasks |-> NoRun]
    /\ execution_metrics = <<>>

\* route_task has not been called.
NoRouted == [given |-> FALSE, task |-> <<>>, role |-> "none", scores |-> <<>>]

\* route_task has not been called with the task.
NotSeen == [role |-> "none", again |-> FALSE]

\* The tasks whose first answer is remembered, to compare later answers
\* with: the backend task of the test-suite (test_integration.py 30-35) and
\* a worker task far beyond every cap of the complexity score.
Remembered ==
    {[assigned_agent |-> "none",
      description |-> [words |-> <<<<"A", "P", "I">>, <<"P", "y", "t", "h", "o", "n">>>>, filler |-> 0],
      requirements |-> 0, dependencies |-> 0],
     [assigned_agent |-> "none",
      description |-> [words |-> <<<<"P", "y", "t", "h", "o", "n">>>>, filler |-> 10000],
      requirements |-> 50, dependencies |-> 50]}

\* multi_model.py 24-26: the router after construction.
RouterIdle ==
    /\ complexity_cache = <<>>
    /\ r_seen = [task \in Remembered |-> NotSeen]
    /\ r_last = NoRouted

\* The roles that use the bus.
BusRoles == {"architect", "worker_backend"}

\* The role never subscribed.
NoHandle == [first |-> 0, latest |-> 0, resubscribed |-> FALSE, after |-> 0]

\* Neither get_messages nor clear_old_messages was the latest call.
NoBusObs == [op |-> "none"]

\* state_bus.py 25-34: the bus after construction, with an empty messages
\* directory.
BusIdle ==
    /\ message_queue = <<>>
    /\ message_files = {}
    /\ subscribers = <<>>
    /\ queues = <<>>
    /\ handles = [role \in BusRoles |-> NoHandle]
    /\ published = <<>>
    /\ b_obs = NoBusObs

\* No candidate yet.
NoCode == [id |-> "none"]

\* refiner.py 26-30: no call of refine yet.
RefinerIdle ==
    /\ rf_pc = "idle"
    /\ rf_args = <<>>
    /\ current_best = NoCode
    /\ generation = 0
    /\ rf_hist = [evaluated |-> 0, incumbents |-> <<>>, generation_best |-> NoCode]
    /\ rf_result = NoCode

\* The state after the objects are constructed: an empty checkpoint
\* directory, an engine with no call in progress, no task posted yet and
\* no episode open.
Init ==
    /\ CkptInit /\ GenIdle /\ VerIdle /\ VoteIdle /\ DispIdle /\ RouterIdle /\ BusIdle
    /\ RefinerIdle

(***************************************************************************)
(* load_checkpoint, restore_from_checkpoint, list_checkpoints.             *)
(***************************************************************************)
None == [kind |-> "none"]

Raised == [kind |-> "raise"]

\* The checkpoint_id argument: None (load the latest) or an id.
LatestArg == [given |-> FALSE, id |-> 0]

IdArg(id) == [given |-> TRUE, id |-> id]

\* pickle.load(f): a file that was not completely written does not unpickle.
pickle_load(file) ==
    IF file.st = "complete" THEN [kind |-> "data", data |-> file.data] ELSE Raised

\* load_checkpoint without its try/except around pickle.load.
load_checkpoint_no_except(arg, fs, lat) ==
    IF ~arg.given /\ ~lat.exists
    THEN None
    ELSE LET name == IF arg.given THEN <<arg.id>> ELSE lat.text
         IN IF name = <<>> \/ fs[name[1]].st = "absent"
            THEN None
            ELSE pickle_load(fs[name[1]])

\* load_checkpoint(checkpoint_id): the checkpoint data, or None.
load_checkpoint(arg, fs, lat) ==
    IF ~arg.given /\ ~lat.exists
    THEN None
    ELSE LET name == IF arg.given THEN <<arg.id>> ELSE lat.text
         IN IF name = <<>> \/ fs[name[1]].st = "absent"
            THEN None
            ELSE LET r == pickle_load(fs[name[1]])
                 IN IF r.kind = "raise" THEN None ELSE r

\* restore_from_checkpoint(checkpoint_id): tasks and global state, or None.
restore_from_checkpoint(arg, fs, lat) ==
    LET r == load_checkpoint(arg, fs, lat)
    IN IF r.kind # "data"
       THEN r
       ELSE [kind |-> "state",
             tasks |-> [i \in 1..Len(r.data.tasks) |->
                            deserialize_task(r.data.tasks[i])],
             global_state |-> r.data.global_state]

\* list_checkpoints(): one entry per snapshot that unpickles, sorted by name.
list_checkpoints(fs) ==
    LET names == SortedSeq(glob(fs))
        Readable(i) == pickle_load(fs[i]).kind = "data"
        good == SelectSeq(names, Readable)
    IN [k \in 1..Len(good) |->
            [id |-> fs[good[k]].data.id,
             tasks_count |-> Len(fs[good[k]].data.tasks)]]

(***************************************************************************)
(* create_checkpoint, step by step.                                        *)
(***************************************************************************)
AtStep(s) == pc > 0 /\ create_steps[pc] = s

\* The call ends (returns, raises or dies) and is entered in the history.
EndCall(outcome, at) ==
    /\ pc' = 0
    /\ cur' = [cur EXCEPT !.outcome = outcome, !.at = at]
    /\ calls' = Append(calls, cur.id)
    /\ all_clean' = (all_clean /\ outcome = "returned" /\ ~cur.delfail)

\* A write that leaves a completely written snapshot file as it is.
TouchKeepsComplete(id, file) ==
    /\ files' = IF files[id].st = "complete" THEN files
                ELSE [files EXCEPT ![id] = file]
    /\ mtime' = [mtime EXCEPT ![id] = Newest(files, mtime) + 1]

\* A write to the snapshot file stamps it with a new modification time.
\* The sort of the cleanup reads only the order of the modification times, so
\* the new stamp is the next number after those of the files on disk.
Touch(id, file) ==
    /\ files' = [files EXCEPT ![id] = file]
    /\ mtime' = [mtime EXCEPT ![id] = Newest(files, mtime) + 1]

\* Time passes between two calls.
Tick ==
    /\ pc = 0
    /\ obs = NoObs
    /\ IF now.half
       THEN now.sec < MaxSec /\ now' = [sec |-> now.sec + 1, half |-> FALSE]
       ELSE now' = [now EXCEPT !.half = TRUE]
    /\ UNCHANGED <<files, mtime, latest, pc, cur, calls, all_clean, obs, not_ckpt>>

\* Lines 50-59: the id from the clock, and the data to save.
CreateBegin(tasks, global_state) ==
    /\ pc = 0
    /\ Len(calls) < MaxCreates
    /\ cur' = [id |-> checkpoint_id(now),
               data |-> checkpoint_data(checkpoint_id(now), tasks, global_state),
               tasks |-> tasks, global_state |-> global_state,
               latest0 |-> latest, delfail |-> FALSE, outcome |-> "none", at |-> ""]
    /\ pc' = 1
    /\ obs' = NoObs
    /\ UNCHANGED <<now, files, mtime, latest, calls, all_clean, not_ckpt>>

\* Line 63: open(checkpoint_file, 'wb') creates or truncates the file.
OpenSnapshot ==
    /\ AtStep("open")
    /\ Touch(cur.id, PartialFile)
    /\ pc' = pc + 1
    /\ UNCHANGED <<now, latest, cur, calls, all_clean, obs, not_ckpt>>

\* Line 63 raises (OSError): lines 76-78 log and re-raise.
OpenSnapshotFails ==
    /\ AtStep("open")
    /\ EndCall("raised", "open")
    /\ UNCHANGED <<now, files, mtime, latest, obs, not_ckpt>>

\* Line 64 and the end of the with block: the data is written and the file closed.
DumpSnapshot ==
    /\ AtStep("dump")
    /\ Touch(cur.id, CompleteFile(cur.data))
    /\ pc' = pc + 1
    /\ UNCHANGED <<now, latest, cur, calls, all_clean, obs, not_ckpt>>

\* Line 64 raises (pickling error, disk full): the file stays as it is.
DumpSnapshotFails ==
    /\ AtStep("dump")
    /\ EndCall("raised", "dump")
    /\ UNCHANGED <<now, files, mtime, latest, obs, not_ckpt>>

\* Line 67, write_text opens latest.json with 'w': the file is empty.
LatestOpen ==
    /\ AtStep("latest_open")
    /\ latest' = EmptyLatest
    /\ pc' = pc + 1
    /\ UNCHANGED <<now, files, mtime, cur, calls, all_clean, obs, not_ckpt>>

\* Line 67 raises: lines 76-78 log and re-raise.
LatestOpenFails ==
    /\ AtStep("latest_open")
    /\ EndCall("raised", "latest_open")
    /\ UNCHANGED <<now, files, mtime, latest, obs, not_ckpt>>

\* Line 67, write_text writes the id and closes.
LatestWrite ==
    /\ AtStep("latest_write")
    /\ latest' = LatestOf(cur.id)
    /\ pc' = pc + 1
    /\ UNCHANGED <<now, files, mtime, cur, calls, all_clean, obs, not_ckpt>>

\* Lines 72, 188-203: unlink every old checkpoint; a failing unlink is logged
\* and skipped (failed is the set of files whose unlink raises).
Cleanup(failed) ==
    /\ AtStep("cleanup")
    /\ failed \subseteq old_checkpoints(files, mtime)
    /\ files' = [i \in Ids |->
                    IF i \in old_checkpoints(files, mtime) \ failed
                    THEN NoFile ELSE files[i]]
    /\ mtime' = [i \in Ids |->
                    IF i \in old_checkpoints(files, mtime) \ failed
                    THEN 0 ELSE mtime[i]]
    /\ cur' = [cur EXCEPT !.delfail = (failed # {})]
    /\ pc' = pc + 1
    /\ UNCHANGED <<now, latest, calls, all_clean, obs, not_ckpt>>

\* Line 74: return checkpoint_id.
Return ==
    /\ AtStep("return")
    /\ EndCall("returned", "")
    /\ UNCHANGED <<now, files, mtime, latest, obs, not_ckpt>>

\* The process dies in the middle of create_checkpoint; the disk stays as it is.
Crash ==
    /\ pc > 0
    /\ EndCall("crashed", "")
    /\ UNCHANGED <<now, files, mtime, latest, obs, not_ckpt>>

\* The caller reads the directory between two calls of create_checkpoint. A read
\* changes nothing on disk: a second read in a row would see what the first saw,
\* so one read per pause is enough.
Load(arg) ==
    /\ pc = 0
    /\ obs = NoObs
    /\ obs' = [op |-> "load", arg |-> arg,
               result |-> load_checkpoint(arg, files, latest)]
    /\ UNCHANGED <<now, files, mtime, latest, pc, cur, calls, all_clean, not_ckpt>>

Restore(arg) ==
    /\ pc = 0
    /\ obs = NoObs
    /\ obs' = [op |-> "restore", arg |-> arg,
               result |-> restore_from_checkpoint(arg, files, latest)]
    /\ UNCHANGED <<now, files, mtime, latest, pc, cur, calls, all_clean, not_ckpt>>

List ==
    /\ pc = 0
    /\ obs = NoObs
    /\ obs' = [op |-> "list", arg |-> LatestArg,
               result |-> [kind |-> "list", value |-> list_checkpoints(files)]]
    /\ UNCHANGED <<now, files, mtime, latest, pc, cur, calls, all_clean, not_ckpt>>

Args == {LatestArg} \cup {IdArg(i) : i \in Ids}

CkptNext ==
    \/ Tick
    \/ \E in \in Inputs : CreateBegin(in.tasks, in.global_state)
    \/ OpenSnapshot
    \/ OpenSnapshotFails
    \/ DumpSnapshot
    \/ DumpSnapshotFails
    \/ LatestOpen
    \/ LatestOpenFails
    \/ LatestWrite
    \/ \E failed \in SUBSET Ids : Cleanup(failed)
    \/ Return
    \/ Crash
    \/ \E arg \in Args : Load(arg)
    \/ \E arg \in Args : Restore(arg)
    \/ List

SpecCheckpoint == Init /\ [][CkptNext]_vars

(***************************************************************************)
(* ConsensusEngine.generate_candidates (extensions/consensus.py).          *)
(***************************************************************************)
\* settings.consensus_n_candidates
consensus_n_candidates == 3

Approaches == {"conservative", "aggressive", "minimal"}

\* The approaches argument: None, or a list.
NoApproaches == [given |-> FALSE, value |-> <<>>]

ApproachArgs ==
    {NoApproaches} \cup
    {[given |-> TRUE, value |-> a] : a \in SeqsUpTo(Approaches, MaxApproaches)}

\* Lines 55-56: the default approaches.
approaches_of(arg) ==
    IF arg.given
    THEN arg.value
    ELSE SubSeq(<<"conservative", "aggressive", "minimal">>, 1, consensus_n_candidates)

\* str(uuid.uuid4()): the k-th value drawn differs from every earlier one.
uuid4(k) == k

\* Lines 101-109: the candidate a generation call returns.
CodeCandidate(id, approach) == [id |-> id, approach |-> approach]

PendingCall == [st |-> "pending", value |-> <<>>]

\* A coroutine that ended by raising.
RaisedCall == [st |-> "raised", value |-> <<>>]

OkCall(value) == [st |-> "ok", value |-> value]

\* The positions of the calls that returned a value, ascending.
OkPositions(coros) == SortedSeq({i \in 1..Len(coros) : coros[i].st = "ok"})

\* The values of the calls that returned, in the order they completed (for a
\* generation batch the uuid counter gives that order).
RECURSIVE InCompletionOrder(_)
InCompletionOrder(vals) ==
    IF vals = {} THEN <<>>
    ELSE LET first == CHOOSE v \in vals : \A w \in vals : v.id <= w.id
         IN <<first>> \o InCompletionOrder(vals \ {first})

\* The results of a batch as asyncio.as_completed would give them.
valid_results_as_completed(coros) ==
    InCompletionOrder({coros[i].value : i \in {j \in 1..Len(coros) : coros[j].st = "ok"}})

\* A join that collects the candidates in the order they completed.
generate_on_complete_as_completed(coros) ==
    [kind |-> "returned", value |-> valid_results_as_completed(coros),
     timed_out |-> FALSE]

\* Lines 69, 74-77 (and 169, 174-177): gather(..., return_exceptions=True)
\* gives one result per coroutine in submission order; the comprehension keeps
\* the values and drops the exceptions.
valid_results(coros) ==
    LET ok == OkPositions(coros)
    IN [k \in 1..Len(ok) |-> coros[ok[k]].value]

\* A timeout handler that salvages what had completed.
generate_on_timeout_salvages(coros) ==
    [kind |-> "returned", value |-> valid_results(coros), timed_out |-> TRUE]

\* Lines 84-86: the deadline expired, the batch is discarded.
generate_on_timeout(coros) ==
    [kind |-> "returned", value |-> <<>>, timed_out |-> TRUE]

\* gather without return_exceptions: the first exception leaves the function.
generate_on_complete_propagates(coros) ==
    IF \E i \in 1..Len(coros) : coros[i].st = "raised"
    THEN [kind |-> "raised", value |-> <<>>, timed_out |-> FALSE]
    ELSE [kind |-> "returned", value |-> valid_results(coros), timed_out |-> FALSE]

\* Lines 68-82: every coroutine has finished before the deadline.
generate_on_complete(coros) ==
    [kind |-> "returned", value |-> valid_results(coros), timed_out |-> FALSE]

\* Lines 55-65: one coroutine per approach; a new call of the engine.
GenStart(arg) ==
    /\ g_pc # "running" /\ v_pc # "running"
    /\ g_pc' = "running"
    /\ g_approaches' = approaches_of(arg)
    /\ g_calls' = [i \in 1..Len(approaches_of(arg)) |-> PendingCall]
    /\ g_uuid' = 0
    /\ g_result' = NoResult
    /\ v_pc' = "idle" /\ v_candidates' = <<>> /\ v_calls' = <<>>
    /\ v_result' = NoResult
    /\ UNCHANGED not_cons

\* Lines 99-109: agent_client.generate returned, the candidate is built.
GenCallReturns(i) ==
    /\ g_pc = "running"
    /\ g_calls[i].st = "pending"
    /\ g_uuid' = g_uuid + 1
    /\ g_calls' = [g_calls EXCEPT
                      ![i] = OkCall(CodeCandidate(uuid4(g_uuid + 1), g_approaches[i]))]
    /\ UNCHANGED <<g_pc, g_approaches, g_result, ver_vars, not_cons>>

\* Line 99 raises (transport or upstream error).
GenCallRaises(i) ==
    /\ g_pc = "running"
    /\ g_calls[i].st = "pending"
    /\ g_calls' = [g_calls EXCEPT ![i] = RaisedCall]
    /\ UNCHANGED <<g_pc, g_approaches, g_uuid, g_result, ver_vars, not_cons>>

\* Lines 68-82: gather is done, wait_for returns its list.
GenComplete ==
    /\ g_pc = "running"
    /\ \A i \in 1..Len(g_calls) : g_calls[i].st # "pending"
    /\ g_result' = generate_on_complete(g_calls)
    /\ g_pc' = "done"
    /\ UNCHANGED <<g_approaches, g_calls, g_uuid, ver_vars, not_cons>>

\* Lines 84-86: the deadline expires while a coroutine is still pending.
GenTimeout ==
    /\ g_pc = "running"
    /\ \E i \in 1..Len(g_calls) : g_calls[i].st = "pending"
    /\ g_result' = generate_on_timeout(g_calls)
    /\ g_pc' = "done"
    /\ UNCHANGED <<g_approaches, g_calls, g_uuid, ver_vars, not_cons>>

(***************************************************************************)
(* ConsensusEngine.cross_verify.                                           *)
(***************************************************************************)
\* The candidate lists cross_verify is called with: candidates with pairwise
\* distinct ids, as generate_candidates produces them.
CandidateLists ==
    {[i \in 1..k |-> CodeCandidate(uuid4(i), "conservative")] : k \in 0..MaxCandidates}

\* What a verifier answers, as the set of the words the parsing looks for.
Responses == { {"pass", "good"}, {"poor"} }

\* Lines 230-241, in hundredths.
extract_score(content) ==
    IF "excellent" \in content THEN 90
    ELSE IF "good" \in content THEN 75
    ELSE IF "acceptable" \in content THEN 60
    ELSE IF "poor" \in content THEN 30
    ELSE 50

\* Lines 216-228: the result of one verification call.
VerificationResult(candidate, verifier_role, content) ==
    [candidate_id |-> candidate.id,
     verifier_role |-> verifier_role,
     passed |-> ("pass" \in content),
     score |-> extract_score(content)]

\* Both calls of a candidate made in the QA role.
verification_coros_qa_twice(candidates) ==
    [j \in 1..(2 * Len(candidates)) |->
        [candidate |-> candidates[(j + 1) \div 2], role |-> "qa_sentinel"]]

\* Lines 157-165: for each candidate a QA call, then an Architect call.
verification_coros(candidates) ==
    [j \in 1..(2 * Len(candidates)) |->
        [candidate |-> candidates[(j + 1) \div 2],
         role |-> IF j % 2 = 1 THEN "qa_sentinel" ELSE "architect"]]

\* Lines 168-180.
verify_on_complete(coros) ==
    [kind |-> "returned", value |-> valid_results(coros), timed_out |-> FALSE]

\* Lines 182-184.
verify_on_timeout(coros) ==
    [kind |-> "returned", value |-> <<>>, timed_out |-> TRUE]

\* Lines 155-165: a new call of the engine.
VerStart(candidates) ==
    /\ g_pc # "running" /\ v_pc # "running"
    /\ v_pc' = "running"
    /\ v_candidates' = candidates
    /\ v_calls' = [j \in 1..Len(verification_coros(candidates)) |->
                      [st |-> "pending", value |-> <<>>,
                       coro |-> verification_coros(candidates)[j]]]
    /\ v_result' = NoResult
    /\ g_pc' = "idle" /\ g_approaches' = <<>> /\ g_calls' = <<>> /\ g_uuid' = 0
    /\ g_result' = NoResult
    /\ UNCHANGED not_cons

\* Lines 213-228: verifier_client.generate returned.
VerCallReturns(j, content) ==
    /\ v_pc = "running"
    /\ v_calls[j].st = "pending"
    /\ v_calls' = [v_calls EXCEPT
                      ![j].st = "ok",
                      ![j].value = VerificationResult(v_calls[j].coro.candidate,
                                                     v_calls[j].coro.role, content)]
    /\ UNCHANGED <<v_pc, v_candidates, v_result, gen_vars, not_cons>>

\* Line 213 raises.
VerCallRaises(j) ==
    /\ v_pc = "running"
    /\ v_calls[j].st = "pending"
    /\ v_calls' = [v_calls EXCEPT ![j].st = "raised"]
    /\ UNCHANGED <<v_pc, v_candidates, v_result, gen_vars, not_cons>>

VerComplete ==
    /\ v_pc = "running"
    /\ \A j \in 1..Len(v_calls) : v_calls[j].st # "pending"
    /\ v_result' = verify_on_complete(v_calls)
    /\ v_pc' = "done"
    /\ UNCHANGED <<v_candidates, v_calls, gen_vars, not_cons>>

VerTimeout ==
    /\ v_pc = "running"
    /\ \E j \in 1..Len(v_calls) : v_calls[j].st = "pending"
    /\ v_result' = verify_on_timeout(v_calls)
    /\ v_pc' = "done"
    /\ UNCHANGED <<v_candidates, v_calls, gen_vars, not_cons>>

ConsNext ==
    \/ \E arg \in ApproachArgs : GenStart(arg)
    \/ \E i \in 1..Len(g_calls) : GenCallReturns(i)
    \/ \E i \in 1..Len(g_calls) : GenCallRaises(i)
    \/ GenComplete
    \/ GenTimeout
    \/ \E candidates \in CandidateLists : VerStart(candidates)
    \/ \E j \in 1..Len(v_calls), content \in Responses : VerCallReturns(j, content)
    \/ \E j \in 1..Len(v_calls) : VerCallRaises(j)
    \/ VerComplete
    \/ VerTimeout

SpecConsensus == Init /\ [][ConsNext]_vars

(***************************************************************************)
(* ConsensusEngine.consensus_vote, _get_passing_candidates,                *)
(* _collect_votes, _select_winner.                                         *)
(***************************************************************************)
\* The verification results consensus_vote may be handed: about candidates of
\* the list or not, passing or failing.
VerificationPool ==
    {VerificationResult(CodeCandidate(uuid4(i), "conservative"), "qa_sentinel", content) :
        i \in 1..MaxCandidates, content \in Responses}

VerificationLists == SeqsUpTo(VerificationPool, MaxVerifications)

\* What the judge answers, as the set of the words the parsing looks for.
JudgeResponses == { {"good"}, {} }

\* Lines 296-301: the candidates whose id some passing verification names.
get_passing_candidates(candidates, verifications) ==
    LET passing_ids == {verifications[k].candidate_id :
                          k \in {j \in 1..Len(verifications) : verifications[j].passed}}
    IN SelectSeq(candidates, LAMBDA c : c.id \in passing_ids)

\* consensus_vote without the fallback of lines 267-270.
passing_candidates_no_fallback(candidates, verifications) ==
    get_passing_candidates(candidates, verifications)

\* Lines 265-270: the passing candidates, or every candidate when none passes.
passing_candidates(candidates, verifications) ==
    LET passing == get_passing_candidates(candidates, verifications)
    IN IF passing = <<>> THEN candidates ELSE passing

\* Lines 338-375: what the prompt says, one entry per candidate.
build_judging_prompt(candidates, verifications) ==
    [i \in 1..Len(candidates) |->
        [approach |-> candidates[i].approach,
         verifications |->
            SelectSeq(verifications, LAMBDA v : v.candidate_id = candidates[i].id)]]

\* A judge asked once per candidate.
judge_prompts_per_candidate(candidates, verifications) ==
    [i \in 1..Len(candidates) |->
        build_judging_prompt(<<candidates[i]>>, verifications)]

\* Lines 312-313: the prompts sent to the judge, in order.
judge_prompts(candidates, verifications) ==
    <<build_judging_prompt(candidates, verifications)>>

\* Lines 321-333.
ConsensusVote(candidate, content) ==
    [candidate_id |-> candidate.id,
     voter_role |-> "consensus_judge",
     score |-> extract_score(content)]

\* Lines 316-336: one vote per candidate, all parsed from the one response.
collect_votes(candidates, content) ==
    [i \in 1..Len(candidates) |-> ConsensusVote(candidates[i], content)]

RECURSIVE SumScores(_)
SumScores(votes) ==
    IF votes = <<>> THEN 0 ELSE Head(votes).score + SumScores(Tail(votes))

\* Lines 386-390: the dict candidate_scores as the sequence of its entries in
\* insertion order. An entry keeps the mean as the pair (sum, n); a candidate
\* without votes gets no entry, an id met again keeps its first position.
RECURSIVE candidate_scores(_, _, _)
candidate_scores(votes, candidates, entries) ==
    IF candidates = <<>> THEN entries
    ELSE LET candidate == Head(candidates)
             candidate_votes == SelectSeq(votes, LAMBDA v : v.candidate_id = candidate.id)
             entry == [id |-> candidate.id,
                       sum |-> SumScores(candidate_votes),
                       n |-> Len(candidate_votes)]
             seen == \E k \in 1..Len(entries) : entries[k].id = candidate.id
         IN candidate_scores(votes, Tail(candidates),
                IF candidate_votes = <<>> THEN entries
                ELSE IF seen
                     THEN [k \in 1..Len(entries) |->
                             IF entries[k].id = candidate.id THEN entry ELSE entries[k]]
                     ELSE Append(entries, entry))

\* avg_score of entry a is greater than avg_score of entry b (sum / n compared
\* exactly).
ScoreGreater(a, b) == a.sum * b.n > b.sum * a.n

\* A max() that lets a later key with an equal score replace the best one.
RECURSIVE max_last_wins(_, _)
max_last_wins(entries, best) ==
    IF entries = <<>> THEN best
    ELSE max_last_wins(Tail(entries),
            IF ~ScoreGreater(best, Head(entries)) THEN Head(entries) ELSE best)

\* Line 393: max(candidate_scores, key=candidate_scores.get) walks the keys in
\* insertion order and replaces the best one only by a strictly greater score.
RECURSIVE max(_, _)
max(entries, best) ==
    IF entries = <<>> THEN best
    ELSE max(Tail(entries),
            IF ScoreGreater(Head(entries), best) THEN Head(entries) ELSE best)

\* Lines 377-394: the winner, or the ValueError of max() over an empty dict.
select_winner(votes, candidates) ==
    LET scores == candidate_scores(votes, candidates, <<>>)
    IN IF scores = <<>>
       THEN [kind |-> "raise", value |-> <<>>]
       ELSE LET winner_id == max(Tail(scores), Head(scores)).id
                first == CHOOSE i \in 1..Len(candidates) :
                            /\ candidates[i].id = winner_id
                            /\ \A j \in 1..(i - 1) : candidates[j].id # winner_id
            IN [kind |-> "candidate", value |-> candidates[first]]

\* Line 283: max(v.score for v in votes if v.candidate_id == winner.id)
winning_score(votes, winner) ==
    LET scores == {votes[k].score :
                     k \in {j \in 1..Len(votes) : votes[j].candidate_id = winner.id}}
    IN CHOOSE m \in scores : \A x \in scores : x <= m

\* A result that does not carry the votes.
ConsensusResult_without_votes(winner, candidates, votes) ==
    [given |-> TRUE,
     winner_candidate_id |-> winner.id,
     all_votes |-> <<>>,
     total_candidates |-> Len(candidates),
     total_votes |-> Len(votes),
     winning_score |-> winning_score(votes, winner)]

\* Lines 278-287.
ConsensusResult(winner, candidates, votes) ==
    [given |-> TRUE,
     winner_candidate_id |-> winner.id,
     all_votes |-> votes,
     total_candidates |-> Len(candidates),
     total_votes |-> Len(votes),
     winning_score |-> winning_score(votes, winner)]

\* Lines 272-287: what consensus_vote does with the judge's answer.
vote_on_response(candidates, passing, content) ==
    LET votes == collect_votes(passing, content)
        winner == select_winner(votes, passing)
    IN IF winner.kind = "raise"
       THEN [kind |-> "raised", value |-> <<>>, error |-> "ValueError"]
       ELSE [kind |-> "ok", value |-> ConsensusResult(winner.value, candidates, votes),
             error |-> ""]

\* The candidate lists _select_winner may be handed: distinct ids in any order.
SelectLists ==
    {c \in SeqsUpTo({CodeCandidate(uuid4(i), "conservative") : i \in 1..MaxCandidates},
                    MaxCandidates) :
        \A i, j \in 1..Len(c) : i # j => c[i].id # c[j].id}

VoteScores == {30, 60, 90}

\* The candidates the votes handed to _select_winner are about.
Voted == {uuid4(1), uuid4(2)}

VoteLists ==
    SeqsUpTo({[candidate_id |-> i, voter_role |-> "consensus_judge", score |-> x] :
                 i \in Voted, x \in VoteScores}, MaxVotes)

\* No dispatch cycle has started. The dispatcher never calls consensus_vote
\* or _select_winner and shares no state with them, and the engine keeps no
\* state between calls: one call of the engine, or else the dispatch cycles,
\* is explored at a time.
NoTaskPosted == \A t \in Tasks : d_run[t].pc = "unposted"

VoteUnused == vt_pc = "idle" /\ sw = NoSelect

\* Lines 262-273: consensus_vote up to the await of the judge.
VoteStart ==
    /\ VoteUnused /\ NoTaskPosted
    /\ \E candidates \in CandidateLists, verifications \in VerificationLists :
          /\ vt_args' = [candidates |-> candidates, verifications |-> verifications]
          /\ vt_passing' = passing_candidates(candidates, verifications)
          /\ vt_judge' = [pending |-> judge_prompts(vt_passing', verifications),
                          calls |-> 0, content |-> {}]
    /\ vt_pc' = "judging"
    /\ UNCHANGED <<vt_result, sw, not_vote>>

\* Line 313 returns: the judge answered; after the last prompt the votes are
\* built and the winner selected (lines 316-336, 276-287).
JudgeReturns(content) ==
    /\ vt_pc = "judging" /\ vt_judge.pending # <<>>
    /\ vt_judge' = [pending |-> Tail(vt_judge.pending),
                    calls |-> vt_judge.calls + 1, content |-> content]
    /\ IF Tail(vt_judge.pending) = <<>>
       THEN /\ vt_pc' = "done"
            /\ vt_result' = vote_on_response(vt_args.candidates, vt_passing, content)
       ELSE UNCHANGED <<vt_pc, vt_result>>
    /\ UNCHANGED <<vt_args, vt_passing, sw, not_vote>>

\* Line 313 raises: nothing in consensus_vote catches it.
JudgeRaises ==
    /\ vt_pc = "judging" /\ vt_judge.pending # <<>>
    /\ vt_judge' = [vt_judge EXCEPT !.calls = @ + 1]
    /\ vt_pc' = "done"
    /\ vt_result' = [kind |-> "raised", value |-> <<>>, error |-> "judge"]
    /\ UNCHANGED <<vt_args, vt_passing, sw, not_vote>>

\* Lines 377-394: _select_winner called on its own.
SelectWinner ==
    /\ VoteUnused /\ NoTaskPosted
    /\ \E votes \in VoteLists, candidates \in SelectLists :
          sw' = [op |-> "select", votes |-> votes, candidates |-> candidates,
                 result |-> select_winner(votes, candidates)]
    /\ UNCHANGED <<vt_pc, vt_args, vt_passing, vt_judge, vt_result, not_vote>>

(***************************************************************************)
(* EpisodicMemory, TaskDispatcher.execute_task, HydraControl._execute_task. *)
(***************************************************************************)
\* Lines 46-56 of episodic_memory.py: the episode start_episode registers.
Episode(task_id) == [task_id |-> task_id, events |-> <<>>, status |-> "active"]

\* A record_event that writes every event twice.
record_event_twice(episodes, episode_id, event_type) ==
    IF episode_id \notin DOMAIN episodes
    THEN episodes
    ELSE [episodes EXCEPT ![episode_id].events = @ \o <<event_type, event_type>>]

\* Lines 79-91: record_event; an unknown episode id is ignored.
record_event(episodes, episode_id, event_type) ==
    IF episode_id \notin DOMAIN episodes
    THEN episodes
    ELSE [episodes EXCEPT ![episode_id].events = Append(@, event_type)]

\* end_episode that removes the episode before storing it.
end_episode_removes_first(episodes, episode_id, success, store_ok) ==
    [raised |-> (episode_id \in DOMAIN episodes) /\ ~store_ok,
     episodes |-> [e \in DOMAIN episodes \ {episode_id} |-> episodes[e]]]

\* Lines 108-130: end_episode. The status is written, the episode is stored
\* (persistent_memory.store raises when the add fails, persistent_memory.py
\* 124-126) and only then removed from active_episodes.
end_episode(episodes, episode_id, success, store_ok) ==
    IF episode_id \notin DOMAIN episodes
    THEN [raised |-> FALSE, episodes |-> episodes]
    ELSE LET closed == [episodes EXCEPT ![episode_id].status =
                            IF success THEN "success" ELSE "failure"]
         IN IF store_ok
            THEN [raised |-> FALSE,
                  episodes |-> [e \in DOMAIN closed \ {episode_id} |-> closed[e]]]
            ELSE [raised |-> TRUE, episodes |-> closed]

\* Line 187 of task_dispatcher.py.
dispatcher_approaches == <<"conservative", "aggressive", "minimal">>

\* What agent_client.generate hands back: AgentClient.generate returns a dict
\* (agent_client.py 90-94); the clients of the test-suite return an object
\* with a content attribute (test_integration.py 137).
ResponseShapes == {"dict", "attributes"}

\* The ways one generation call can go: the HTTP call raises or answers.
CallOutcomes == [1..Len(dispatcher_approaches) -> {"answers", "raises"}]

\* Lines 96-109 of consensus.py for the i-th approach: response.content is an
\* attribute access, which raises AttributeError on a dict.
generate_single_candidate(shape, outcome, i) ==
    IF outcome = "raises" \/ shape = "dict"
    THEN RaisedCall
    ELSE OkCall(CodeCandidate(uuid4(i), dispatcher_approaches[i]))

\* Lines 184-188: generate_candidates as the dispatcher calls it.
dispatcher_generate(shape, outcomes, timed_out) ==
    LET coros == [i \in 1..Len(dispatcher_approaches) |->
                    generate_single_candidate(shape, outcomes[i], i)]
    IN IF timed_out THEN generate_on_timeout(coros).value
       ELSE generate_on_complete(coros).value

\* Lines 210-223: one mock verification per candidate, no verifier is called.
verify_candidates(candidates) ==
    [i \in 1..Len(candidates) |->
        [candidate_id |-> candidates[i].id, verifier_role |-> "qa_sentinel",
         passed |-> TRUE, score |-> 80]]

\* A vote step that answers a result without a winner for an empty batch.
dispatcher_consensus_vote_empty_result(candidates) ==
    [kind |-> "ok",
     value |-> [given |-> TRUE,
                winner_candidate_id |-> 0,
                all_votes |-> <<>>,
                total_candidates |-> Len(candidates),
                total_votes |-> 0,
                winning_score |-> 0]]

\* Lines 241-269: the first candidate wins with one mock vote, no judge is
\* called; candidates[0] raises IndexError on an empty list.
dispatcher_consensus_vote(candidates) ==
    IF candidates = <<>>
    THEN [kind |-> "raised", value |-> NoConsensusResult]
    ELSE [kind |-> "ok",
          value |-> [given |-> TRUE,
                     winner_candidate_id |-> candidates[1].id,
                     all_votes |-> <<[candidate_id |-> candidates[1].id,
                                      voter_role |-> "consensus_judge",
                                      score |-> 85]>>,
                     total_candidates |-> Len(candidates),
                     total_votes |-> 1,
                     winning_score |-> 85]]

\* Lines 141-149: what execute_task returns from its except clause.
FailureResult(error) ==
    [given |-> TRUE, success |-> FALSE, error |-> error, winner_id |-> 0]

\* Lines 130-139.
SuccessResult(winner) ==
    [given |-> TRUE, success |-> TRUE, error |-> "", winner_id |-> winner.id]

\* The dispatch cycle of task t stands at position p.
At(t, p) == d_run[t].pc = p

\* The cycle of task t moves on with the locals r.
Move(t, r) == d_run' = [d_run EXCEPT ![t] = r]

\* hydra_control.py 71-84: POST /tasks stores the posted Task, whose status
\* field is whatever the request body says (models.py 42 gives the default
\* pending), and schedules _execute_task for it.
create_task(t, status) ==
    /\ At(t, "unposted") /\ VoteUnused
    /\ task_status' = [task_status EXCEPT ![t] = status]
    /\ Move(t, [d_run[t] EXCEPT !.pc = "queued"])
    /\ UNCHANGED <<active_episodes, e_uuid, execution_metrics, not_disp>>

\* hydra_control.py 175-197: the task becomes in_progress and its episode is
\* started. No websocket is connected, so _broadcast_update returns at once
\* (lines 257-258).
Begin(t) ==
    /\ At(t, "queued")
    /\ task_status' = [task_status EXCEPT ![t] = "in_progress"]
    /\ e_uuid' = e_uuid + 1
    /\ LET episode_id == uuid4(e_uuid + 1)
       IN /\ active_episodes' =
                [e \in DOMAIN active_episodes \cup {episode_id} |->
                    IF e = episode_id THEN Episode(t) ELSE active_episodes[e]]
          /\ Move(t, [d_run[t] EXCEPT !.pc = "context", !.episode_id = episode_id])
    /\ UNCHANGED <<execution_metrics, not_disp>>

\* task_dispatcher.py 64-72 and 151-167: the two recalls; a failing search
\* answers [] (persistent_memory.py 176-178).
GatherContext(t, recall) ==
    /\ At(t, "context")
    /\ Move(t, [d_run[t] EXCEPT
                    !.pc = "generate",
                    !.recall = recall,
                    !.patterns = IF recall = "found" THEN <<"pattern">> ELSE <<>>,
                    !.calls.recall = @ + 2])
    /\ active_episodes' =
          record_event(active_episodes, d_run[t].episode_id, "context_gathered")
    /\ UNCHANGED <<task_status, e_uuid, execution_metrics, not_disp>>

\* Lines 75-83 and 169-190: the generation stage.
Generate(t, shape, outcomes, timed_out) ==
    /\ At(t, "generate")
    /\ Move(t, [d_run[t] EXCEPT
                    !.pc = "verify",
                    !.candidates = dispatcher_generate(shape, outcomes, timed_out),
                    !.calls.generator = @ + Len(dispatcher_approaches),
                    !.stages = Append(@, "generate")])
    /\ active_episodes' =
          record_event(active_episodes, d_run[t].episode_id, "candidates_generated")
    /\ UNCHANGED <<task_status, e_uuid, execution_metrics, not_disp>>

\* Lines 86-94 and 192-223: the verification stage.
Verify(t) ==
    /\ At(t, "verify")
    /\ Move(t, [d_run[t] EXCEPT
                    !.pc = "vote",
                    !.verifications = verify_candidates(d_run[t].candidates),
                    !.stages = Append(@, "verify")])
    /\ active_episodes' =
          record_event(active_episodes, d_run[t].episode_id, "verification_complete")
    /\ UNCHANGED <<task_status, e_uuid, execution_metrics, not_disp>>

\* Lines 97-112 and 225-269: the vote stage; its IndexError is caught at line
\* 141 and execute_task returns the failure result.
Vote(t) ==
    /\ At(t, "vote")
    /\ LET voted == dispatcher_consensus_vote(d_run[t].candidates)
       IN IF voted.kind = "raised"
          THEN /\ Move(t, [d_run[t] EXCEPT
                              !.pc = "dispatched",
                              !.result = FailureResult("list index out of range")])
               /\ UNCHANGED active_episodes
          ELSE /\ Move(t, [d_run[t] EXCEPT
                              !.pc = "learn",
                              !.consensus_result = voted.value,
                              !.stages = Append(@, "vote")])
               /\ active_episodes' =
                     record_event(active_episodes, d_run[t].episode_id,
                                  "consensus_reached")
    /\ UNCHANGED <<task_status, e_uuid, execution_metrics, not_disp>>

\* Lines 115-149: the winner is looked up and stored through
\* pattern_extractor.extract_from_consensus (pattern_extractor.py 55-60); a
\* failing store raises and execute_task returns the failure result.
Learn(t, store_ok) ==
    /\ At(t, "learn")
    /\ LET ids == {i \in 1..Len(d_run[t].candidates) :
                     d_run[t].candidates[i].id =
                        d_run[t].consensus_result.winner_candidate_id}
           winner == d_run[t].candidates[CHOOSE i \in ids : \A j \in ids : i <= j]
       IN Move(t, [d_run[t] EXCEPT
                      !.pc = "dispatched",
                      !.calls.store = @ + 1,
                      !.result = IF ids = {} THEN FailureResult("")
                                 ELSE IF store_ok THEN SuccessResult(winner)
                                 ELSE FailureResult("store failed")])
    /\ UNCHANGED <<task_status, active_episodes, e_uuid, execution_metrics, not_disp>>

\* hydra_control.py 208-217.
ExecutionMetrics(t, result) ==
    [task_id |-> t, success |-> result.success, error_message |-> result.error]

\* A status that ignores the result.
status_of_always_completed(result) == "completed"

\* Line 203.
status_of(result) == IF result.success THEN "completed" ELSE "failed"

\* Lines 200-218: execute_task has returned; the status is set and the
\* metrics are recorded.
Finish(t) ==
    /\ At(t, "dispatched")
    /\ task_status' = [task_status EXCEPT ![t] = status_of(d_run[t].result)]
    /\ execution_metrics' =
          Append(execution_metrics, ExecutionMetrics(t, d_run[t].result))
    /\ Move(t, [d_run[t] EXCEPT !.pc = "closing"])
    /\ UNCHANGED <<active_episodes, e_uuid, not_disp>>

\* Lines 221-235: the episode is ended; when end_episode raises, the except
\* clause marks the task failed (lines 237-240).
EndEpisode(t, store_ok) ==
    /\ At(t, "closing")
    /\ LET ended == end_episode(active_episodes, d_run[t].episode_id,
                                d_run[t].result.success, store_ok)
       IN /\ active_episodes' = ended.episodes
          /\ IF ended.raised
             THEN /\ task_status' = [task_status EXCEPT ![t] = "failed"]
                  /\ Move(t, [d_run[t] EXCEPT !.pc = "except"])
             ELSE /\ UNCHANGED task_status
                  /\ Move(t, [d_run[t] EXCEPT !.pc = "returned"])
    /\ UNCHANGED <<e_uuid, execution_metrics, not_disp>>

\* Lines 242-253: the except clause ends the episode again; an exception
\* raised here leaves _execute_task.
ExceptEndEpisode(t, store_ok) ==
    /\ At(t, "except")
    /\ LET ended == end_episode(active_episodes, d_run[t].episode_id, FALSE, store_ok)
       IN /\ active_episodes' = ended.episodes
          /\ Move(t, [d_run[t] EXCEPT
                         !.pc = IF ended.raised THEN "raised" ELSE "returned"])
    /\ UNCHANGED <<task_status, e_uuid, execution_metrics, not_disp>>

RecallOutcomes == {"failed", "found"}

PipeNext ==
    \/ VoteStart
    \/ \E content \in JudgeResponses : JudgeReturns(content)
    \/ JudgeRaises
    \/ SelectWinner
    \/ \E t \in Tasks, status \in TaskStatus : create_task(t, status)
    \/ \E t \in Tasks : Begin(t)
    \/ \E t \in Tasks, r \in RecallOutcomes : GatherContext(t, r)
    \/ \E t \in Tasks, shape \in ResponseShapes, o \in CallOutcomes,
          timed_out \in BOOLEAN : Generate(t, shape, o, timed_out)
    \/ \E t \in Tasks : Verify(t)
    \/ \E t \in Tasks : Vote(t)
    \/ \E t \in Tasks, ok \in BOOLEAN : Learn(t, ok)
    \/ \E t \in Tasks : Finish(t)
    \/ \E t \in Tasks, ok \in BOOLEAN : EndEpisode(t, ok)
    \/ \E t \in Tasks, ok \in BOOLEAN : ExceptEndEpisode(t, ok)

SpecPipeline == Init /\ [][PipeNext]_vars

(***************************************************************************)
(* MultiModelRouter.route_task and AgentRegistry.route_task_to_agent.      *)
(***************************************************************************)
\* models.py: AgentRole. "none" stands for None.
AgentRole ==
    {"architect", "worker_backend", "worker_frontend", "qa_sentinel",
     "consensus_judge"}

\* A string is the sequence of its characters.
UpperCase ==
    <<"A", "B", "C", "D", "E", "F", "G", "H", "I", "J", "K", "L", "M",
      "N", "O", "P", "Q", "R", "S", "T", "U", "V", "W", "X", "Y", "Z">>

LowerCase ==
    <<"a", "b", "c", "d", "e", "f", "g", "h", "i", "j", "k", "l", "m",
      "n", "o", "p", "q", "r", "s", "t", "u", "v", "w", "x", "y", "z">>

\* str.lower(), character by character.
lower_char(c) ==
    IF \E i \in 1..Len(UpperCase) : UpperCase[i] = c
    THEN LowerCase[CHOOSE i \in 1..Len(UpperCase) : UpperCase[i] = c]
    ELSE c

lower(s) == [i \in 1..Len(s) |-> lower_char(s[i])]

\* keyword in s
IsSubstring(keyword, s) ==
    \E i \in 1..(Len(s) - Len(keyword) + 1) :
        SubSeq(s, i, i + Len(keyword) - 1) = keyword

\* agent_registry.py 196-198.
architect_keywords ==
  {<<"p", "l", "a", "n">>, <<"a", "r", "c", "h", "i", "t", "e", "c", "t">>,
    <<"d", "e", "s", "i", "g", "n">>, <<"s", "c", "h", "e", "m", "a">>,
    <<"a", "p", "i">>, <<"s", "t", "r", "u", "c", "t", "u", "r", "e">>}

\* agent_registry.py 201-203.
frontend_keywords ==
  {<<"f", "r", "o", "n", "t", "e", "n", "d">>, <<"u", "i">>,
    <<"r", "e", "a", "c", "t">>, <<"v", "u", "e">>,
    <<"c", "o", "m", "p", "o", "n", "e", "n", "t">>, <<"c", "s", "s">>,
    <<"h", "t", "m", "l">>}

\* agent_registry.py 206-208.
backend_keywords ==
  {<<"b", "a", "c", "k", "e", "n", "d">>, <<"a", "p", "i">>,
    <<"d", "a", "t", "a", "b", "a", "s", "e">>,
    <<"s", "e", "r", "v", "e", "r">>, <<"p", "y", "t", "h", "o", "n">>,
    <<"g", "o">>}

\* agent_registry.py 211-213.
qa_keywords ==
  {<<"t", "e", "s", "t">>, <<"v", "e", "r", "i", "f", "y">>, <<"q", "a">>,
    <<"v", "a", "l", "i", "d", "a", "t", "e">>, <<"c", "h", "e", "c", "k">>}

\* multi_model.py 82-86.
complexity_keywords ==
  {<<"a", "r", "c", "h", "i", "t", "e", "c", "t", "u", "r", "e">>,
    <<"d", "e", "s", "i", "g", "n">>,
    <<"s", "c", "a", "l", "a", "b", "l", "e">>,
    <<"d", "i", "s", "t", "r", "i", "b", "u", "t", "e", "d">>,
    <<"o", "p", "t", "i", "m", "i", "z", "a", "t", "i", "o", "n">>,
    <<"a", "l", "g", "o", "r", "i", "t", "h", "m">>,
    <<"p", "e", "r", "f", "o", "r", "m", "a", "n", "c", "e">>,
    <<"s", "e", "c", "u", "r", "i", "t", "y">>,
    <<"i", "n", "t", "e", "g", "r", "a", "t", "i", "o", "n">>,
    <<"m", "i", "c", "r", "o", "s", "e", "r", "v", "i", "c", "e">>,
    <<"a", "s", "y", "n", "c">>,
    <<"c", "o", "n", "c", "u", "r", "r", "e", "n", "t">>}

\* The words descriptions are made of, as they are typed.
Vocabulary ==
  {<<"A", "P", "I">>, <<"P", "y", "t", "h", "o", "n">>,
    <<"R", "e", "a", "c", "t">>, <<"D", "e", "s", "i", "g", "n">>,
    <<"a", "l", "g", "o", "r", "i", "t", "h", "m">>,
    <<"s", "c", "a", "l", "a", "b", "l", "e">>, <<"t", "e", "s", "t">>}

\* The word a long description is filled up with.
Filler == <<"t", "h", "e">>

\* A description is its words, separated by blanks, followed by `filler`
\* copies of the filler word.
Descriptions == SeqsUpTo(Vocabulary, MaxWords)

\* How much a task carries besides its first words: [filler words,
\* requirements, dependencies], from nothing to far beyond every cap.
Loads ==
    {[filler |-> 0, requirements |-> 0, dependencies |-> 0],
     [filler |-> 60, requirements |-> 1, dependencies |-> 1],
     [filler |-> 10000, requirements |-> 50, dependencies |-> 50]}

\* The tasks route_task is called with.
RouterTasks ==
    {[assigned_agent |-> a,
      description |-> [words |-> d, filler |-> l.filler],
      requirements |-> l.requirements,
      dependencies |-> l.dependencies] :
        a \in {"none", "qa_sentinel"}, d \in Descriptions, l \in Loads}

\* The words of a description.
split(description) ==
    description.words \o [i \in 1..(IF description.filler > 0 THEN 1 ELSE 0) |-> Filler]

\* len(description.split())
word_count(description) == Len(description.words) + description.filler

\* The keywords found in each word once it is lowered.
found_in ==
    [word \in Vocabulary \cup {Filler} |->
        {keyword \in architect_keywords \cup frontend_keywords \cup backend_keywords
                         \cup qa_keywords \cup complexity_keywords :
            IsSubstring(keyword, lower(word))}]

\* keyword in description.lower(): no keyword holds a blank, so the keyword
\* lies in the text exactly when it lies in one of its words.
contains(description, keyword) ==
    \E k \in 1..Len(split(description)) : keyword \in found_in[split(description)[k]]

\* any(keyword in description_lower for keyword in [...])
any(description, keywords) == \E keyword \in keywords : contains(description, keyword)

\* agent_registry.py 191-217.
route_task_to_agent(description) ==
    IF any(description, architect_keywords) THEN "architect"
    ELSE IF any(description, frontend_keywords) THEN "worker_frontend"
    ELSE IF any(description, backend_keywords) THEN "worker_backend"
    ELSE IF any(description, qa_keywords) THEN "qa_sentinel"
    ELSE "architect"

min(a, b) == IF b < a THEN b ELSE a

\* The scores are kept in thousandths: 0.3 is 300. Every quotient of lines
\* 75-96 is a whole number of thousandths, and the float sums of the code
\* compare with 0.8 and 1.0 as these exact sums do.
length_score_uncapped(task) == word_count(task.description) * 5

\* Line 75: min(desc_length / 200, 0.3)
length_score(task) == min(word_count(task.description) * 5, 300)

\* Line 79: min(len(requirements) / 10, 0.2)
requirements_score(task) == min(task.requirements * 100, 200)

\* Lines 89-92.
keyword_matches(task) ==
    Cardinality({keyword \in complexity_keywords : contains(task.description, keyword)})

\* Line 93: min(keyword_matches / 5, 0.3)
keywords_score(task) == min(keyword_matches(task) * 200, 300)

\* Line 96: min(len(task.dependencies) / 5, 0.2)
dependencies_score(task) == min(task.dependencies * 200, 200)

\* multi_model.py 61-98.
calculate_complexity(task) ==
    min(length_score(task) + requirements_score(task) + keywords_score(task)
            + dependencies_score(task), 1000)

\* The score and its four components as line 44 computes them.
complexity_scores(task) ==
    [length |-> length_score(task),
     requirements |-> requirements_score(task),
     keywords |-> keywords_score(task),
     dependencies |-> dependencies_score(task),
     total |-> calculate_complexity(task)]

\* An escalation that already happens at 0.8.
escalates_from(complexity, suggested_role) ==
    complexity >= 800 /\ suggested_role \in {"worker_backend", "worker_frontend"}

\* Lines 50-52.
escalates(complexity, suggested_role) ==
    complexity > 800 /\ suggested_role \in {"worker_backend", "worker_frontend"}

\* A router that answers what it answered last.
route_task_cached(task) ==
    IF r_last.given THEN r_last.role ELSE route_task_to_agent(task.description)

\* Lines 43-59: the route of a task without an assigned agent.
route_unassigned(task) ==
    IF escalates(calculate_complexity(task), route_task_to_agent(task.description))
    THEN "architect"
    ELSE route_task_to_agent(task.description)

\* A router that never looks at the assignment.
route_assigned_ignored(task) == route_unassigned(task)

\* Lines 39-41.
route_assigned(task) == task.assigned_agent

\* multi_model.py 28-59.
route_task(task) ==
    IF task.assigned_agent # "none" THEN route_assigned(task)
    ELSE route_unassigned(task)

\* One call of route_task: nothing of the router is written.
RouteTask ==
    /\ \E task \in RouterTasks :
          LET routed == [given |-> TRUE, task |-> task, role |-> route_task(task),
                         scores |-> IF task.assigned_agent # "none" THEN <<>>
                                    ELSE complexity_scores(task)]
          IN /\ r_last' = routed
             /\ r_seen' = IF task \notin Remembered THEN r_seen
                          ELSE IF r_seen[task] = NotSeen
                          THEN [r_seen EXCEPT ![task] = [role |-> routed.role,
                                                         again |-> FALSE]]
                          ELSE [r_seen EXCEPT ![task].again = TRUE]
    /\ UNCHANGED <<complexity_cache, not_route>>

RouterNext ==
    \/ RouteTask

SpecRouter == Init /\ [][RouterNext]_vars

(***************************************************************************)
(* StateBus (orchestration/state_bus.py).                                  *)
(***************************************************************************)
\* models.py 113-121: a message; recipient "none" stands for None, a
\* broadcast. The id is the number of the publish (the callers draw uuids).
AgentMessage(id, sender, recipient) ==
    [id |-> id, sender |-> sender, recipient |-> recipient]

\* A put at the head of the queue.
put_first(qs, q, message) == [qs EXCEPT ![q] = <<message>> \o @]

\* queue.put(message) on the queue q.
put(qs, q, message) == [qs EXCEPT ![q] = Append(@, message)]

\* Lines 60-61: one put for every value of the subscribers dict.
RECURSIVE put_all(_, _, _, _)
put_all(qs, subs, roles, message) ==
    IF roles = {} THEN qs
    ELSE LET role == CHOOSE r \in roles : TRUE
         IN put_all(put(qs, subs[role], message), subs, roles \ {role}, message)

\* A delivery that treats every message as a broadcast.
deliver_to_all(qs, subs, message) == put_all(qs, subs, DOMAIN subs, message)

\* Lines 54-61.
deliver(qs, subs, message) ==
    IF message.recipient # "none"
    THEN IF message.recipient \in DOMAIN subs
         THEN put(qs, subs[message.recipient], message)
         ELSE qs
    ELSE put_all(qs, subs, DOMAIN subs, message)

\* list[-limit:] as Python slices: -0 is 0, the start of the list, and a
\* limit beyond the length gives the whole list.
slice_last(list, limit) ==
    IF limit = 0 \/ limit >= Len(list) THEN list
    ELSE SubSeq(list, Len(list) - limit + 1, Len(list))

\* Lines 101-110.
get_messages(recipient, sender, limit) ==
    LET messages == slice_last(message_queue, limit)
        by_recipient == IF recipient # "none"
                        THEN SelectSeq(messages, LAMBDA m : m.recipient = recipient)
                        ELSE messages
    IN IF sender # "none"
       THEN SelectSeq(by_recipient, LAMBDA m : m.sender = sender)
       ELSE by_recipient

\* Times are in hours, relative to the moment of the call. datetime.utcnow()
\* is a naive datetime holding the UTC wall clock, and timestamp() reads a
\* naive datetime as local time: the result is off by the UTC offset of the
\* local zone.
utcnow_timestamp(clock, utc_offset) == clock - utc_offset

\* Line 156.
cutoff(clock, max_age_hours, utc_offset) ==
    utcnow_timestamp(clock, utc_offset) - max_age_hours

\* The statements of publish with the in-memory ones first.
publish_steps_memory_first == <<"append", "deliver", "write">>

\* The statements of publish, in program order: write_text (line 48), the
\* append to message_queue (line 51), the puts (lines 54-61).
publish_steps == <<"write", "append", "deliver">>

\* What publish reads and writes.
Bus ==
    [files |-> message_files, message_queue |-> message_queue, queues |-> queues,
     subscribers |-> subscribers]

\* One statement of publish.
publish_step(step, bus, message) ==
    CASE step = "write" -> [bus EXCEPT !.files = @ \cup {message.id}]
      [] step = "append" -> [bus EXCEPT !.message_queue = Append(@, message)]
      [] step = "deliver" ->
            [bus EXCEPT !.queues = deliver(@, bus.subscribers, message)]

\* The statements of publish run in order. publish has no try block: when
\* write_text raises (OSError) the exception leaves publish and the
\* statements after it are not run; the file may have been created
\* (file_left) or not.
RECURSIVE run_publish(_, _, _, _, _)
run_publish(steps, bus, message, write_ok, file_left) ==
    IF steps = <<>> THEN [raised |-> FALSE, bus |-> bus]
    ELSE IF Head(steps) = "write" /\ ~write_ok
    THEN [raised |-> TRUE,
          bus |-> IF file_left THEN publish_step("write", bus, message) ELSE bus]
    ELSE run_publish(Tail(steps), publish_step(Head(steps), bus, message),
                     message, write_ok, file_left)

\* Lines 46-63.
Publish(sender, recipient) ==
    /\ Len(published) < MaxPublish
    /\ LET message == AgentMessage(Len(published) + 1, sender, recipient)
           ran == run_publish(publish_steps, Bus, message, TRUE, FALSE)
       IN /\ message_files' = ran.bus.files
          /\ message_queue' = ran.bus.message_queue
          /\ queues' = ran.bus.queues
          /\ published' = Append(published, [message |-> message,
                                             subscribed |-> DOMAIN subscribers])
    /\ b_obs' = NoBusObs
    /\ UNCHANGED <<subscribers, handles, not_bus>>

\* Lines 46-48: publish of the next message while the disk refuses the
\* write. The caller may publish the message again later.
PublishFails(sender, recipient, file_left) ==
    /\ Len(published) < MaxPublish
    /\ LET message == AgentMessage(Len(published) + 1, sender, recipient)
           ran == run_publish(publish_steps, Bus, message, FALSE, file_left)
       IN /\ message_files' = ran.bus.files
          /\ message_queue' = ran.bus.message_queue
          /\ queues' = ran.bus.queues
          /\ b_obs' = [op |-> "publish", raised |-> ran.raised, message |-> message,
                       memory |-> <<message_queue, queues>>]
    /\ UNCHANGED <<subscribers, handles, published, not_bus>>

\* A new queue that starts with the messages already published to the role.
new_queue_with_backlog(agent_role) ==
    SelectSeq(message_queue, LAMBDA m : m.recipient = agent_role)

\* Line 79: asyncio.Queue(), an empty queue.
new_queue(agent_role) == <<>>

\* Lines 78-82: a queue is made only for a role that has none; the queue
\* of the role is returned.
Subscribe(agent_role) ==
    /\ IF agent_role \notin DOMAIN subscribers
       THEN /\ queues' = Append(queues, new_queue(agent_role))
            /\ subscribers' =
                  [role \in DOMAIN subscribers \cup {agent_role} |->
                      IF role = agent_role THEN Len(queues) + 1
                      ELSE subscribers[role]]
       ELSE UNCHANGED <<queues, subscribers>>
    /\ handles' =
          [handles EXCEPT ![agent_role] =
              IF @ = NoHandle
              THEN [first |-> subscribers'[agent_role],
                    latest |-> subscribers'[agent_role],
                    resubscribed |-> FALSE, after |-> 0]
              ELSE [first |-> @.first,
                    latest |-> subscribers'[agent_role],
                    resubscribed |-> TRUE, after |-> Len(published)]]
    /\ b_obs' = NoBusObs
    /\ UNCHANGED <<message_queue, message_files, published, not_bus>>

\* Lines 84-110.
GetMessages(recipient, sender, limit) ==
    /\ b_obs' = [op |-> "get_messages", recipient |-> recipient, sender |-> sender,
                 limit |-> limit,
                 result |-> get_messages(recipient, sender, limit)]
    /\ UNCHANGED <<message_queue, message_files, subscribers, queues, handles,
                   published, not_bus>>

\* Lines 146-167. The call happens at hour 0 of the model's clock; the file
\* of age a was last written at hour -a; the local zone is utc_offset hours
\* ahead of UTC.
ClearOldMessages(max_age_hours, utc_offset) ==
    /\ message_files # {}
    /\ \E ages \in [message_files -> 0..(MaxAgeHours + 1)] :
          LET st_mtime == [f \in message_files |-> 0 - ages[f]]
              old == {f \in message_files :
                         st_mtime[f] < cutoff(0, max_age_hours, utc_offset)}
          IN /\ message_files' = message_files \ old
             /\ b_obs' = [op |-> "clear_old_messages",
                          utc_offset |-> utc_offset,
                          files |-> message_files,
                          older |-> {f \in message_files : ages[f] > max_age_hours},
                          result |-> Cardinality(old),
                          memory |-> <<message_queue, subscribers, queues>>]
    /\ UNCHANGED <<message_queue, subscribers, queues, handles, published, not_bus>>

\* The UTC offsets of the zones the process may run in, in hours.
UtcOffsets == {-1, 0, 1}

\* Messages are published, roles subscribe and the recent messages are read.
\* clear_old_messages is left to SpecBusFiles: it writes only message_files,
\* which no other operation of the bus reads.
BusNext ==
    \/ \E sender \in BusRoles, recipient \in BusRoles \cup {"none"} :
          Publish(sender, recipient)
    \/ \E agent_role \in BusRoles : Subscribe(agent_role)
    \/ \E recipient \in BusRoles \cup {"none"}, sender \in BusRoles \cup {"none"},
          limit \in 0..MaxPublish : GetMessages(recipient, sender, limit)

SpecBus == Init /\ [][BusNext]_vars

\* Messages are published, with the disk working or failing, roles
\* subscribe and old message files are cleared. get_messages writes nothing and is left to SpecBus; the messages
\* here are broadcasts and messages to the backend worker.
BusFilesNext ==
    \/ \E recipient \in {"none", "worker_backend"} : Publish("architect", recipient)
    \/ \E recipient \in {"none", "worker_backend"}, file_left \in BOOLEAN :
          PublishFails("architect", recipient, file_left)
    \/ \E agent_role \in BusRoles : Subscribe(agent_role)
    \/ \E max_age_hours \in 0..MaxAgeHours, utc_offset \in UtcOffsets :
          ClearOldMessages(max_age_hours, utc_offset)

SpecBusFiles == Init /\ [][BusFilesNext]_vars

(***************************************************************************)
(* EvolutionaryRefiner: src/evolution/refiner.py.                          *)
(*                                                                         *)
(* A code is modelled by what the fitness heuristics read of it: its number *)
(* of lines and the markers it contains. Weights and measures are in        *)
(* tenths, fitness scores in hundredths.                                    *)
(***************************************************************************)
\* Line 28.
population_size == 5

\* The codes of the initial candidate: line counts on both sides of every
\* readability band, with and without each maintainability marker.
Codes ==
    [lines : {1, 19, 20, 49, 50, 99, 100},
     docstring : BOOLEAN, type_hints : BOOLEAN, error_handling : BOOLEAN,
     functions : {1, 2}]

\* fitness_criteria: the empty dict, correctness alone, and weights that
\* leave out correctness and performance.
Criteria ==
    {<<>>,
     [correctness |-> 10],
     [correctness |-> 0, performance |-> 0, readability |-> 5, maintainability |-> 5]}

\* criteria.get(key, default).
criteria_get(criteria, key, default) ==
    IF key \in DOMAIN criteria THEN criteria[key] ELSE default

\* Lines 184-193: the mock always passes.
test_correctness(candidate) == [passed |-> TRUE, tests_run |-> 0, tests_passed |-> 0]

\* Lines 195-200: the mock measurement, 0.8.
measure_performance(candidate) == 8

\* Lines 202-216.
measure_readability(code) ==
    IF code.lines < 20 THEN 6
    ELSE IF code.lines < 50 THEN 10
    ELSE IF code.lines < 100 THEN 8
    ELSE 5

\* Lines 218-240.
measure_maintainability(code) ==
    LET score == (IF code.docstring THEN 3 ELSE 0)
                 + (IF code.type_hints THEN 3 ELSE 0)
                 + (IF code.error_handling THEN 2 ELSE 0)
                 + (IF code.functions > 1 THEN 2 ELSE 0)
    IN min(score, 10)

\* Lines 149-182.
calculate_fitness(candidate, criteria) ==
    criteria_get(criteria, "correctness", 4)
          * (IF test_correctness(candidate).passed THEN 10 ELSE 0)
    + criteria_get(criteria, "performance", 2) * measure_performance(candidate)
    + criteria_get(criteria, "readability", 2) * measure_readability(candidate.code)
    + criteria_get(criteria, "maintainability", 2)
          * measure_maintainability(candidate.code)

\* Lines 100-122: the parent and population_size - 1 mutations, each with
\* the parent's code.
generate_mutations(parent) ==
    <<parent>> \o [i \in 1..(population_size - 1) |->
                     [id |-> <<"mutation", i - 1>>, code |-> parent.code]]

\* Lines 141-147.
evaluate_population(population, criteria) ==
    [i \in 1..Len(population) |-> calculate_fitness(population[i], criteria)]

\* Line 68: fitness_scores.index(max(fitness_scores)), the first index of
\* the greatest score.
best_index(fitness_scores) ==
    CHOOSE i \in 1..Len(fitness_scores) :
       /\ \A j \in 1..Len(fitness_scores) : fitness_scores[j] <= fitness_scores[i]
       /\ \A j \in 1..(i - 1) : fitness_scores[j] < fitness_scores[i]

\* A loop that runs one generation more than the cap.
loop_continues_beyond(gen, max_generations) == gen <= max_generations

\* Line 54.
loop_continues(gen, max_generations) == gen < max_generations

\* A loop that goes on when the best of the generation only equals the
\* incumbent.
no_improvement_strict(best_score, current_score) == best_score < current_score

\* Line 75.
no_improvement(best_score, current_score) == best_score <= current_score

\* Lines 49-52: refine is called.
Refine ==
    /\ rf_pc = "idle"
    /\ \E code \in Codes, criteria \in Criteria, max_generations \in 0..MaxGenerations :
          LET initial_code == [id |-> <<"winner", 0>>, code |-> code]
          IN /\ rf_args' = [initial_code |-> initial_code, criteria |-> criteria,
                            max_generations |-> max_generations]
             /\ current_best' = initial_code
             /\ rf_hist' = [rf_hist EXCEPT
                               !.incumbents = <<calculate_fitness(initial_code, criteria)>>]
    /\ generation' = 0
    /\ rf_pc' = "loop"
    /\ UNCHANGED <<rf_result, not_refine>>

\* Lines 54-80: one pass of the loop body.
RefineGeneration ==
    /\ rf_pc = "loop"
    /\ loop_continues(generation, rf_args.max_generations)
    /\ LET population == generate_mutations(current_best)
           fitness_scores == evaluate_population(population, rf_args.criteria)
           best_idx == best_index(fitness_scores)
           generation_best == population[best_idx]
           best_score == fitness_scores[best_idx]
       IN IF no_improvement(best_score,
                            calculate_fitness(current_best, rf_args.criteria))
          THEN /\ rf_pc' = "done"
               /\ rf_result' = current_best
               /\ rf_hist' = [rf_hist EXCEPT !.evaluated = @ + 1,
                                             !.generation_best = generation_best]
               /\ UNCHANGED <<current_best, generation>>
          ELSE /\ current_best' = generation_best
               /\ generation' = generation + 1
               /\ rf_hist' = [rf_hist EXCEPT !.evaluated = @ + 1,
                                             !.generation_best = generation_best,
                                             !.incumbents = Append(@, best_score)]
               /\ UNCHANGED <<rf_pc, rf_result>>
    /\ UNCHANGED <<rf_args, not_refine>>

\* Lines 54 and 82-83: the loop ends at the cap.
RefineReturn ==
    /\ rf_pc = "loop"
    /\ ~loop_continues(generation, rf_args.max_generations)
    /\ rf_pc' = "done"
    /\ rf_result' = current_best
    /\ UNCHANGED <<rf_args, current_best, generation, rf_hist, not_refine>>

RefinerNext ==
    \/ Refine
    \/ RefineGeneration
    \/ RefineReturn

\* refine is a coroutine of the event loop: once called it is run to its end.
SpecRefiner == Init /\ [][RefinerNext]_vars /\ WF_vars(RefinerNext)

(***************************************************************************)
(* CheckpointManager: the claims.                                          *)
(***************************************************************************)
\* The snapshot the 'latest' pointer names, as a set: empty when the pointer is
\* absent or holds no id.
LatestTarget == IF latest.exists /\ latest.text # <<>> THEN {latest.text[1]} ELSE {}

Complete == {i \in Ids : files[i].st = "complete"}

Corrupt == {i \in Ids : files[i].st = "partial"}

\* C1: whenever no create_checkpoint is running (it returned, raised or the
\* process died at any of its steps), the 'latest' pointer, when it exists,
\* names a snapshot file that is on disk and was completely written.
C1_LatestNamesCompleteSnapshot ==
    (pc = 0 /\ latest.exists) =>
        /\ LatestTarget # {}
        /\ LatestTarget \subseteq Complete

\* C2: every change of the 'latest' pointer happens when the snapshot file of
\* the running call holds the call's complete data; and a call that raised
\* while opening or writing the snapshot leaves the pointer as it found it.
C2_PointerAdvancesAfterWrite ==
    [][ /\ (latest' # latest) => (files[cur.id] = CompleteFile(cur.data))
        /\ (cur'.outcome = "raised" /\ cur'.at \in {"open", "dump"})
              => (latest' = cur'.latest0) ]_vars

\* A call raised in pickle.dump and the pointer still names the earlier
\* checkpoint of another id.
C2_Witness ==
    /\ pc = 0
    /\ cur.outcome = "raised"
    /\ cur.at = "dump"
    /\ LatestTarget # {}
    /\ cur.id \notin LatestTarget

\* C3: a restore (of the latest, or of the returned id) made right after a
\* create_checkpoint that returned gives back the tasks and the global state
\* the create was called with.
C3_RestoreEqualsSaved ==
    (obs.op = "restore" /\ cur.outcome = "returned"
        /\ obs.arg \in {LatestArg, IdArg(cur.id)})
    => obs.result = [kind |-> "state", tasks |-> cur.tasks,
                     global_state |-> cur.global_state]

\* A restore of the latest after a create that saved a non-empty task list.
C3_Witness ==
    /\ obs.op = "restore"
    /\ obs.arg = LatestArg
    /\ cur.outcome = "returned"
    /\ cur.tasks # <<>>
    /\ obs.result.kind = "state"

DistinctIds(ids) == \A i, j \in 1..Len(ids) : i # j => ids[i] # ids[j]

\* The ids of the max_checkpoints most recent calls.
MostRecent(ids) ==
    {ids[i] : i \in (Len(ids) - max_checkpoints + 1)..Len(ids)}

C5_CountWithinRetention ==
    (pc = 0 /\ cur.outcome = "returned") =>
        Cardinality(glob(files)) <= max_checkpoints

\* The snapshot a load_checkpoint(arg) looks for, as a set.
Requested(arg) == IF arg.given THEN {arg.id} ELSE LatestTarget

\* C6: load_checkpoint never raises, and returns None when the pointer is
\* absent, when the snapshot it looks for is not on disk and when that
\* snapshot does not unpickle; list_checkpoints lists exactly the snapshots
\* that unpickle, in the order of their names.
C6_LoadAndListDegrade ==
    /\ obs.op = "load" =>
        /\ obs.result.kind # "raise"
        /\ (~obs.arg.given /\ ~latest.exists) => obs.result = None
        /\ (Requested(obs.arg) \cap glob(files) = {}) => obs.result = None
        /\ (Requested(obs.arg) \cap Corrupt # {}) => obs.result = None
        /\ (Requested(obs.arg) \cap Complete # {}) => obs.result.kind = "data"
    /\ obs.op = "list" =>
        /\ Len(obs.result.value) = Cardinality(Complete)
        /\ \A k \in 1..Len(obs.result.value) :
              /\ obs.result.value[k].id \in Complete
              /\ k > 1 => obs.result.value[k - 1].id < obs.result.value[k].id

\* load_checkpoint() of the latest found the snapshot 'latest' names corrupt.
C6_Witness ==
    /\ obs.op = "load"
    /\ ~obs.arg.given
    /\ LatestTarget \cap Corrupt # {}
    /\ obs.result = None

\* list_checkpoints() skipped a corrupt snapshot and listed a readable one.
C6_WitnessList ==
    /\ obs.op = "list"
    /\ Corrupt # {}
    /\ Len(obs.result.value) >= 1

(***************************************************************************)
(* ConsensusEngine.generate_candidates and cross_verify: the claims.       *)
(***************************************************************************)
OkCalls(coros) == {i \in 1..Len(coros) : coros[i].st = "ok"}

PendingCalls(coros) == {i \in 1..Len(coros) : coros[i].st = "pending"}

RaisedCalls(coros) == {i \in 1..Len(coros) : coros[i].st = "raised"}

\* The batch ended with every coroutine finished: the deadline did not expire.
GenJoined == g_pc = "done" /\ PendingCalls(g_calls) = {}

VerJoined == v_pc = "done" /\ PendingCalls(v_calls) = {}

\* C7: when every generator call of a batch has succeeded before the deadline,
\* generate_candidates returns one candidate per approach, in the order of the
\* approaches, each tagged with its approach, with pairwise distinct ids.
C7_OneCandidatePerApproach ==
    (GenJoined /\ OkCalls(g_calls) = 1..Len(g_calls)) =>
        /\ g_result.kind = "returned"
        /\ Len(g_result.value) = Len(g_approaches)
        /\ \A i \in 1..Len(g_result.value) :
              g_result.value[i].approach = g_approaches[i]
        /\ \A i, j \in 1..Len(g_result.value) :
              i # j => g_result.value[i].id # g_result.value[j].id

\* Three calls succeeded, the last one submitted completing first.
C7_Witness ==
    /\ GenJoined
    /\ Len(g_approaches) = 3
    /\ g_approaches[1] # g_approaches[3]
    /\ OkCalls(g_calls) = 1..3
    /\ g_calls[3].value.id < g_calls[1].value.id
    /\ Len(g_result.value) = 3

\* C8: when the deadline does not expire, generate_candidates does not raise
\* and returns exactly the candidates of the calls that succeeded, one per
\* successful call and in submission order, whichever calls raised.
C8_RaisingCallsAreDropped ==
    GenJoined =>
        /\ g_result.kind = "returned"
        /\ Len(g_result.value) = Cardinality(OkCalls(g_calls))
        /\ \A i \in OkCalls(g_calls) :
              /\ g_calls[i].value.approach = g_approaches[i]
              /\ \E k \in 1..Len(g_result.value) : g_result.value[k] = g_calls[i].value
        /\ \A k, l \in 1..Len(g_result.value) :
              k < l => \E i, j \in OkCalls(g_calls) :
                          /\ i < j
                          /\ g_result.value[k] = g_calls[i].value
                          /\ g_result.value[l] = g_calls[j].value

\* One call of three raised and two candidates were returned.
C8_Witness ==
    /\ GenJoined
    /\ Len(g_calls) = 3
    /\ Cardinality(RaisedCalls(g_calls)) = 1
    /\ Len(g_result.value) = 2

\* C9: a generation or verification stage that ended while one of its calls was
\* still unfinished (the deadline expired) returns the empty list, whatever
\* the other calls of the batch had returned.
C9_TimeoutDiscardsBatch ==
    /\ (g_pc = "done" /\ PendingCalls(g_calls) # {}) =>
          (g_result.kind = "returned" /\ g_result.value = <<>>)
    /\ (v_pc = "done" /\ PendingCalls(v_calls) # {}) =>
          (v_result.kind = "returned" /\ v_result.value = <<>>)

\* The deadline expired after a generation call had returned its candidate.
C9_Witness ==
    /\ g_pc = "done"
    /\ PendingCalls(g_calls) # {}
    /\ OkCalls(g_calls) # {}
    /\ g_result.value = <<>>

\* The same for a verification batch.
C9_WitnessVerify ==
    /\ v_pc = "done"
    /\ PendingCalls(v_calls) # {}
    /\ OkCalls(v_calls) # {}
    /\ v_result.value = <<>>

\* C10: cross_verify dispatches for every candidate one call in the QA role
\* and one in the Architect role and no other call; when the deadline does
\* not expire it returns the result of every call that did not raise and of
\* no other, each result naming an input candidate, at most two per candidate.
C10_TwoVerificationsPerCandidate ==
    (v_pc # "idle") =>
        /\ Len(v_calls) = 2 * Len(v_candidates)
        /\ \A i \in 1..Len(v_candidates) :
              /\ v_calls[2 * i - 1].coro =
                    [candidate |-> v_candidates[i], role |-> "qa_sentinel"]
              /\ v_calls[2 * i].coro =
                    [candidate |-> v_candidates[i], role |-> "architect"]
        /\ VerJoined =>
              /\ v_result.kind = "returned"
              /\ Len(v_result.value) = Cardinality(OkCalls(v_calls))
              /\ \A j \in OkCalls(v_calls) :
                    \E k \in 1..Len(v_result.value) :
                        /\ v_result.value[k] = v_calls[j].value
                        /\ v_result.value[k].candidate_id = v_calls[j].coro.candidate.id
                        /\ v_result.value[k].verifier_role = v_calls[j].coro.role
              /\ \A k \in 1..Len(v_result.value) :
                    \E i \in 1..Len(v_candidates) :
                        v_result.value[k].candidate_id = v_candidates[i].id
              /\ \A i \in 1..Len(v_candidates) :
                    Cardinality({k \in 1..Len(v_result.value) :
                        v_result.value[k].candidate_id = v_candidates[i].id}) <= 2

\* Two candidates were verified, one call raised, three results came back.
C10_Witness ==
    /\ VerJoined
    /\ Len(v_candidates) = 2
    /\ Cardinality(RaisedCalls(v_calls)) = 1
    /\ Len(v_result.value) = 3

(***************************************************************************)
(* consensus_vote and _select_winner: the claims.                          *)
(***************************************************************************)
\* Some verification result that passed names the candidate.
HasPassing(candidate) ==
    \E k \in 1..Len(vt_args.verifications) :
        /\ vt_args.verifications[k].candidate_id = candidate.id
        /\ vt_args.verifications[k].passed

VoteCalled == vt_pc # "idle"

\* consensus_vote ended by returning a ConsensusResult.
VoteReturned == vt_pc = "done" /\ vt_result.kind = "ok"

\* C11: consensus_vote votes over exactly the input candidates that have a
\* passing verification, in input order; when no candidate has one (also when
\* there is no verification at all) it votes over all the input candidates,
\* and with a judge that answers and a non-empty input it returns a result.
C11_VotesOverPassingOrAll ==
    VoteCalled =>
        /\ IF \E i \in 1..Len(vt_args.candidates) : HasPassing(vt_args.candidates[i])
           THEN vt_passing = SelectSeq(vt_args.candidates, HasPassing)
           ELSE vt_passing = vt_args.candidates
        /\ VoteReturned =>
              /\ Len(vt_result.value.all_votes) = Len(vt_passing)
              /\ \A i \in 1..Len(vt_passing) :
                    vt_result.value.all_votes[i].candidate_id = vt_passing[i].id
        /\ (vt_pc = "done" /\ vt_args.candidates # <<>> /\ vt_result.error # "judge")
              => vt_result.kind = "ok"

\* The fallback was taken: verifications exist, none passes, and the vote went
\* over all three candidates.
C11_Witness ==
    /\ VoteReturned
    /\ Len(vt_args.candidates) = 3
    /\ vt_args.verifications # <<>>
    /\ \A i \in 1..Len(vt_args.candidates) : ~HasPassing(vt_args.candidates[i])
    /\ Len(vt_result.value.all_votes) = 3

\* The filter was applied: only the second of three candidates passed.
C11_WitnessFilter ==
    /\ VoteReturned
    /\ Len(vt_args.candidates) = 3
    /\ vt_passing = <<vt_args.candidates[2]>>

\* C12: each consensus_vote issues exactly one call to the judge, whatever the
\* number of candidates; the result holds exactly one vote per surviving
\* candidate, in their order, each cast by the judge role, and total_votes is
\* the number of surviving candidates.
C12_OneJudgeCallOneVoteEach ==
    /\ vt_judge.calls <= 1
    /\ vt_pc = "done" => vt_judge.calls = 1
    /\ VoteReturned =>
          /\ Len(vt_result.value.all_votes) = Len(vt_passing)
          /\ \A i \in 1..Len(vt_passing) :
                /\ vt_result.value.all_votes[i].candidate_id = vt_passing[i].id
                /\ vt_result.value.all_votes[i].voter_role = "consensus_judge"
          /\ vt_result.value.total_votes = Len(vt_passing)

\* Two of three candidates survive; one judge call produced their two votes.
C12_Witness ==
    /\ VoteReturned
    /\ Len(vt_args.candidates) = 3
    /\ Len(vt_passing) = 2
    /\ vt_judge.calls = 1
    /\ vt_result.value.total_votes = 2

\* The votes handed to _select_winner that are about the candidate.
VotesFor(candidate) == SelectSeq(sw.votes, LAMBDA v : v.candidate_id = candidate.id)

HasVotes(candidate) == VotesFor(candidate) # <<>>

\* The mean vote score of a is smaller than that of b (both have votes).
MeanLess(a, b) ==
    SumScores(VotesFor(a)) * Len(VotesFor(b)) < SumScores(VotesFor(b)) * Len(VotesFor(a))

\* _select_winner returned a listed candidate with votes whose mean no listed
\* candidate exceeds and no earlier listed candidate equals.
ReturnedBestFirst ==
    /\ sw.result.kind = "candidate"
    /\ \E i \in 1..Len(sw.candidates) :
          /\ sw.candidates[i] = sw.result.value
          /\ HasVotes(sw.candidates[i])
          /\ \A j \in 1..Len(sw.candidates) :
                HasVotes(sw.candidates[j]) => ~MeanLess(sw.candidates[i], sw.candidates[j])
          /\ \A j \in 1..(i - 1) :
                HasVotes(sw.candidates[j]) => MeanLess(sw.candidates[j], sw.candidates[i])

SomeCandidateVoted == \E i \in 1..Len(sw.candidates) : HasVotes(sw.candidates[i])

IdsOf(candidates) == {candidates[i].id : i \in 1..Len(candidates)}

\* The result's winner is a candidate of the batch and has a vote in all_votes.
WinnerInBatch(result, candidates) ==
    /\ result.winner_candidate_id \in IdsOf(candidates)
    /\ \E k \in 1..Len(result.all_votes) :
          result.all_votes[k].candidate_id = result.winner_candidate_id

\* C14: every ConsensusResult produced, by ConsensusEngine.consensus_vote or
\* by the dispatcher's vote step, names as winner a candidate of the batch it
\* was computed from, and that candidate has at least one vote in all_votes.
C14_WinnerBelongsToBatch ==
    /\ VoteReturned => WinnerInBatch(vt_result.value, vt_args.candidates)
    /\ \A t \in Tasks :
          d_run[t].consensus_result.given =>
              WinnerInBatch(d_run[t].consensus_result, d_run[t].candidates)

\* The engine chose the only passing candidate, the last of three.
C14_Witness ==
    /\ VoteReturned
    /\ Len(vt_args.candidates) = 3
    /\ vt_result.value.winner_candidate_id = vt_args.candidates[3].id
    /\ vt_result.value.total_candidates = 3

\* The dispatcher's vote step produced a result for a batch of two.
C14_WitnessDispatcher ==
    \E t \in Tasks :
        /\ d_run[t].consensus_result.given
        /\ Len(d_run[t].candidates) = 2
        /\ d_run[t].consensus_result.winner_candidate_id = d_run[t].candidates[1].id

\* The generation stage of the cycle of task t is over.
Generated(t) == d_run[t].stages # <<>>

\* execute_task has returned for task t.
Dispatched(t) == d_run[t].result.given

\* _execute_task has set the status from the result of execute_task.
StatusSet(t) == d_run[t].pc \in {"closing", "except", "returned", "raised"}

\* _execute_task is over: it returned, or an exception left it.
CycleOver(t) == d_run[t].pc \in {"returned", "raised"}

\* C15: when generation leaves zero candidates (every call failed or the
\* deadline expired), no ConsensusResult is produced, execute_task returns a
\* failure result with an error, and the task ends failed.
C15_NoCandidatesFailsTask ==
    \A t \in Tasks :
        (Generated(t) /\ d_run[t].candidates = <<>>) =>
            /\ ~d_run[t].consensus_result.given
            /\ d_run[t].pc \in {"verify", "vote"} \/ Dispatched(t)
            /\ Dispatched(t) =>
                  /\ ~d_run[t].result.success
                  /\ d_run[t].result.error # ""
                  /\ d_run[t].result.winner_id = 0
            /\ StatusSet(t) => task_status[t] = "failed"

\* A cycle whose generation produced nothing has returned with the task failed
\* and its episode closed.
C15_Witness ==
    \E t \in Tasks :
        /\ d_run[t].pc = "returned"
        /\ Generated(t) /\ d_run[t].candidates = <<>>
        /\ d_run[t].calls.generator = 3
        /\ ~d_run[t].result.success
        /\ task_status[t] = "failed"

\* The episode started for task t is still among the active episodes.
EpisodeOpen(t) ==
    d_run[t].episode_id # 0 /\ d_run[t].episode_id \in DOMAIN active_episodes

\* C16: once _execute_task is over for a task, however it went, the task is
\* completed or failed and its episode is no longer among the active
\* episodes.
C16_CycleClosesTaskAndEpisode ==
    \A t \in Tasks :
        CycleOver(t) =>
            /\ task_status[t] \in {"completed", "failed"}
            /\ ~EpisodeOpen(t)

\* The part of C16 that the code keeps: a task is never left in_progress.
C16_TaskNeverLeftInProgress ==
    \A t \in Tasks : CycleOver(t) => task_status[t] \in {"completed", "failed"}

\* The status changes the specification allows.
AllowedTransitions ==
    {<<"pending", "in_progress">>, <<"in_progress", "completed">>,
     <<"in_progress", "failed">>, <<"pending", "blocked">>}

\* C17: a task's status only ever changes along pending -> in_progress,
\* in_progress -> completed, in_progress -> failed or pending -> blocked; a
\* completed task never becomes failed.
C17_StatusTransitions ==
    [][\A t \in Tasks :
          (d_run[t].pc # "unposted" /\ task_status'[t] # task_status[t]) =>
              <<task_status[t], task_status'[t]>> \in AllowedTransitions]_vars

\* C18: a result of execute_task that is not a success carries an error
\* description and the task is marked failed; a success is returned, and the
\* task is marked completed, only when the vote selected a winner that
\* belongs to the generated batch.
C18_FailureIsReportedSuccessHasWinner ==
    \A t \in Tasks :
        Dispatched(t) =>
            /\ ~d_run[t].result.success => d_run[t].result.error # ""
            /\ d_run[t].result.success =>
                  /\ d_run[t].consensus_result.given
                  /\ d_run[t].result.winner_id =
                        d_run[t].consensus_result.winner_candidate_id
                  /\ d_run[t].result.winner_id \in IdsOf(d_run[t].candidates)
            /\ StatusSet(t) =>
                  /\ task_status[t] \in {"completed", "failed"}
                  /\ ~d_run[t].result.success => task_status[t] = "failed"
                  /\ task_status[t] = "completed" => d_run[t].result.success

\* A cycle with candidates and a winner whose learning step failed: the
\* result is a failure with an error and the task is failed.
C18_Witness ==
    \E t \in Tasks :
        /\ d_run[t].pc = "returned"
        /\ d_run[t].candidates # <<>>
        /\ d_run[t].consensus_result.given
        /\ ~d_run[t].result.success
        /\ d_run[t].result.error = "store failed"
        /\ task_status[t] = "failed"

\* A cycle that returned a success: the task is completed.
C18_WitnessSuccess ==
    \E t \in Tasks :
        /\ d_run[t].pc = "returned"
        /\ d_run[t].result.success
        /\ d_run[t].result.winner_id = d_run[t].candidates[1].id
        /\ task_status[t] = "completed"

C19_SuccessRanStagesInOrder ==
    \A t \in Tasks :
        (Dispatched(t) /\ d_run[t].result.success) =>
            d_run[t].stages = <<"generate", "verify", "vote">>

C20_FailedRecallIsSwallowed ==
    \A t \in Tasks :
        d_run[t].recall = "failed" =>
            /\ d_run[t].patterns = <<>>
            /\ d_run[t].pc # "dispatched" \/ Dispatched(t)
            /\ (Dispatched(t) /\ ~d_run[t].result.success) =>
                  d_run[t].result.error \in {"list index out of range", "store failed"}

(***************************************************************************)
(* MultiModelRouter: the claims.                                           *)
(***************************************************************************)
\* The latest call of route_task was for a task without an assigned agent.
RoutedUnassigned == r_last.given /\ r_last.task.assigned_agent = "none"

\* The description of the latest call contains the keyword.
Mentions(keyword) == contains(r_last.task.description, keyword)

\* C21: route_task returns the assigned agent of a task that carries one,
\* whatever its description and its complexity would select.
C21_AssignedRoleWins ==
    (r_last.given /\ r_last.task.assigned_agent # "none") =>
        r_last.role = r_last.task.assigned_agent

\* A task assigned to the QA sentinel is routed to it although its
\* description selects the architect by escalation.
C21_Witness ==
    /\ r_last.given
    /\ r_last.task.assigned_agent = "qa_sentinel"
    /\ r_last.role = "qa_sentinel"
    /\ route_task_to_agent(r_last.task.description) = "worker_backend"
    /\ calculate_complexity(r_last.task) > 800

\* C22: for an unassigned task that is not escalated, a description with the
\* backend keywords 'api' and 'python' and no UI keyword is routed to the
\* backend worker, one with 'react' or 'component' to the frontend worker,
\* and one with 'design' or 'architecture' to the architect.
C22_KeywordRouting ==
    (RoutedUnassigned /\ r_last.scores.total <= 800) =>
        /\ (/\ Mentions(<<"a", "p", "i">>) /\ Mentions(<<"p", "y", "t", "h", "o", "n">>)
            /\ ~any(r_last.task.description, frontend_keywords))
               => r_last.role = "worker_backend"
        /\ (Mentions(<<"r", "e", "a", "c", "t">>) \/ Mentions(<<"c", "o", "m", "p", "o", "n", "e", "n", "t">>))
               => r_last.role = "worker_frontend"
        /\ (Mentions(<<"d", "e", "s", "i", "g", "n">>) \/ Mentions(<<"a", "r", "c", "h", "i", "t", "e", "c", "t", "u", "r", "e">>))
               => r_last.role = "architect"

\* The part of C22 that the code keeps: 'design' and 'architecture' always
\* select the architect.
C22_DesignSelectsArchitect ==
    (RoutedUnassigned /\ (Mentions(<<"d", "e", "s", "i", "g", "n">>) \/ Mentions(<<"a", "r", "c", "h", "i", "t", "e", "c", "t", "u", "r", "e">>)))
        => r_last.role = "architect"

\* C23: an unassigned task is routed to the architect when its complexity is
\* above 0.8 and its baseline role is a worker role, and to its baseline role
\* in every other case.
C23_EscalationAboveThreshold ==
    RoutedUnassigned =>
        LET baseline == route_task_to_agent(r_last.task.description)
        IN IF r_last.scores.total > 800
              /\ baseline \in {"worker_backend", "worker_frontend"}
           THEN r_last.role = "architect"
           ELSE r_last.role = baseline

\* A backend task with complexity 0.9 is routed to the architect.
C23_Witness ==
    /\ RoutedUnassigned
    /\ route_task_to_agent(r_last.task.description) = "worker_backend"
    /\ r_last.scores.total = 900
    /\ r_last.role = "architect"

\* A frontend task with complexity exactly 0.8 stays with the frontend worker.
C23_WitnessAtThreshold ==
    /\ RoutedUnassigned
    /\ r_last.scores.total = 800
    /\ r_last.role = "worker_frontend"

\* A QA task with complexity above 0.8 stays with the QA sentinel.
C23_WitnessQA ==
    /\ RoutedUnassigned
    /\ r_last.scores.total > 800
    /\ r_last.role = "qa_sentinel"

\* C24: the complexity score lies in [0, 1] and its four components are at
\* most 0.3, 0.2, 0.3 and 0.2, however long the description and however
\* many the requirements and dependencies.
C24_ComplexityIsCapped ==
    RoutedUnassigned =>
        /\ r_last.scores.length \in 0..300
        /\ r_last.scores.requirements \in 0..200
        /\ r_last.scores.keywords \in 0..300
        /\ r_last.scores.dependencies \in 0..200
        /\ r_last.scores.total \in 0..1000

\* A task with a 10,000-word description, 50 requirements, 50 dependencies
\* and two complexity keywords scores exactly 1.
C24_Witness ==
    /\ RoutedUnassigned
    /\ word_count(r_last.task.description) > 10000
    /\ r_last.task.requirements = 50
    /\ r_last.task.dependencies = 50
    /\ keyword_matches(r_last.task) = 2
    /\ r_last.scores.total = 1000

----------------------------------------------------------------------------
\* StateBus: the claims.

\* How many times the message is on the queue.
Count(queue, message) ==
    Cardinality({i \in 1..Len(queue) : queue[i] = message})

\* The roles whose queue a published message belongs on: the recipient, when
\* it was subscribed at the publish, or every role subscribed at the publish.
Targets(p) ==
    IF p.message.recipient # "none"
    THEN {p.message.recipient} \cap p.subscribed
    ELSE p.subscribed

\* C26: a message with a recipient is on the queue of that recipient only
\* and on no other role's queue; a broadcast is exactly once on the queue of
\* every role subscribed when it was published, the sender's included.
C26_PublishDelivery ==
    \A i \in 1..Len(published) :
       \A q \in 1..Len(queues) :
          Count(queues[q], published[i].message) =
             IF \E role \in Targets(published[i]) : subscribers[role] = q
             THEN 1 ELSE 0

\* A broadcast and a message to the other role were published by a sender
\* while both roles were subscribed: the broadcast is on the sender's queue
\* too, the directed message is not.
C26_Witness ==
    \E i, j \in 1..Len(published) :
       LET b == published[i]
           d == published[j]
       IN /\ b.subscribed = BusRoles /\ d.subscribed = BusRoles
          /\ b.message.recipient = "none"
          /\ d.message.recipient \in BusRoles \ {d.message.sender}
          /\ Count(queues[subscribers[b.message.sender]], b.message) = 1
          /\ Count(queues[subscribers[d.message.recipient]], d.message) = 1
          /\ Count(queues[subscribers[d.message.sender]], d.message) = 0

\* The messages for the role that were published after its latest
\* re-subscribe.
PublishedAfterResubscribe(role) ==
    {i \in 1..Len(published) :
        /\ i > handles[role].after
        /\ role \in Targets(published[i])}

\* C27: after a role has subscribed again, the messages published for it
\* afterwards are on the queue returned by the latest subscribe and not on
\* the queue returned by the earlier subscribe.
C27_LastSubscriberWins ==
    \A role \in BusRoles :
       handles[role].resubscribed =>
          \A i \in PublishedAfterResubscribe(role) :
             /\ Count(queues[handles[role].latest], published[i].message) = 1
             /\ Count(queues[handles[role].first], published[i].message) = 0

\* What subscribe does: every subscribe of a role returns the one queue made
\* by its first subscribe, and a re-subscribe makes no queue.
C27_ResubscribeReturnsSameQueue ==
    /\ Len(queues) = Cardinality(DOMAIN subscribers)
    /\ \A role \in BusRoles :
          handles[role] # NoHandle =>
             /\ handles[role].first = handles[role].latest
             /\ handles[role].latest = subscribers[role]

\* C28: the in-memory list of recent messages is bounded: whatever the
\* number of publishes allowed, MaxPublish, the list stays below it.
C28_RecentViewIsBounded ==
    Len(message_queue) < MaxPublish

\* What publish does: the in-memory list holds every message ever published,
\* in publish order; nothing is ever removed from it.
C28_ViewHoldsEveryPublished ==
    message_queue = [i \in 1..Len(published) |-> published[i].message]

\* The message passes the filters; "none" is a filter that is not given.
Matches(m, recipient, sender) ==
    /\ recipient # "none" => m.recipient = recipient
    /\ sender # "none" => m.sender = sender

\* The limit most recently published messages, in publish order.
MostRecentMessages(limit) ==
    SubSeq(message_queue, Len(message_queue) - min(limit, Len(message_queue)) + 1,
           Len(message_queue))

\* What the claim asks of a call of get_messages with this limit.
ReturnsMostRecentMatching(limit) ==
    /\ b_obs.result = SelectSeq(MostRecentMessages(limit),
                                LAMBDA m : Matches(m, b_obs.recipient, b_obs.sender))
    /\ Len(b_obs.result) <= limit
    /\ (/\ limit >= 1
        /\ message_queue # <<>>
        /\ b_obs.recipient = "none"
        /\ b_obs.sender = message_queue[Len(message_queue)].sender)
       => b_obs.result # <<>> /\
          b_obs.result[Len(b_obs.result)] = message_queue[Len(message_queue)]

\* C29: for every limit from 0 on, get_messages returns in publish order
\* exactly the messages among the limit most recent ones that pass the
\* filters, never more than limit of them, and the message published last is
\* returned to a query by its sender with a limit of at least 1.
C29_GetMessagesMostRecent ==
    b_obs.op = "get_messages" => ReturnsMostRecentMatching(b_obs.limit)

\* The same for the limits from 1 on, where it holds.
C29_GetMessagesPositiveLimit ==
    (b_obs.op = "get_messages" /\ b_obs.limit >= 1)
       => ReturnsMostRecentMatching(b_obs.limit)

\* The call returned the number of files it deleted and left the in-memory
\* list, the subscribers and their queues as they were.
ClearCountsAndLeavesMemory ==
    /\ b_obs.result = Cardinality(b_obs.files \ message_files)
    /\ b_obs.memory = <<message_queue, subscribers, queues>>

\* C30: clear_old_messages deletes exactly the message files older than
\* max_age_hours, returns the number of files it deleted and leaves the
\* in-memory list and every subscriber's queue unchanged.
C30_ClearDeletesOlderFiles ==
    b_obs.op = "clear_old_messages" =>
       /\ message_files = b_obs.files \ b_obs.older
       /\ ClearCountsAndLeavesMemory

\* What holds in every zone: the count and the untouched memory; and in a
\* zone at UTC the files deleted are exactly the older ones.
C30_ClearInUTC ==
    b_obs.op = "clear_old_messages" =>
       /\ ClearCountsAndLeavesMemory
       /\ b_obs.utc_offset = 0 => message_files = b_obs.files \ b_obs.older

----------------------------------------------------------------------------
\* EvolutionaryRefiner: the claims.

\* The fitness of a candidate under the criteria of the call.
Fitness(candidate) == calculate_fitness(candidate, rf_args.criteria)

\* C31: every call of refine comes to its end, and it has then evaluated at
\* most max_generations generations.
C31_RefineTerminates ==
    /\ (rf_pc = "loop") ~> (rf_pc = "done")
    /\ [](rf_pc # "idle" => rf_hist.evaluated <= rf_args.max_generations)

\* A call with a cap of one generation has returned after evaluating one.
C31_Witness ==
    /\ rf_pc = "done"
    /\ rf_args.max_generations = 1
    /\ rf_hist.evaluated = 1

\* C32: the candidate returned is never less fit than the initial one, and
\* each incumbent is strictly fitter than the incumbent before it.
C32_NeverWorseThanInitial ==
    /\ rf_pc = "done" => Fitness(rf_result) >= Fitness(rf_args.initial_code)
    /\ \A i \in 1..(Len(rf_hist.incumbents) - 1) :
          rf_hist.incumbents[i] < rf_hist.incumbents[i + 1]

\* A call with the default weights has evaluated a generation and returned
\* a candidate exactly as fit as the initial one.
C32_Witness ==
    /\ rf_pc = "done"
    /\ rf_args.criteria = <<>>
    /\ rf_hist.evaluated >= 1
    /\ rf_hist.incumbents = <<Fitness(rf_result)>>

\* The members of the incumbent's population with the greatest fitness.
FittestMembers ==
    LET population == generate_mutations(current_best)
    IN {population[i] : i \in {j \in 1..Len(population) :
           \A k \in 1..Len(population) :
              Fitness(population[k]) <= Fitness(population[j])}}

\* C33: a generation whose best member is not strictly fitter than the
\* incumbent ends the loop, and the incumbent is returned as it is; the
\* incumbent is replaced only by a fittest member of its generation, and
\* only by a strictly fitter one.
C33_StopsAtFirstNonImprovement ==
    [][/\ rf_hist'.evaluated = rf_hist.evaluated + 1 =>
             IF \E member \in FittestMembers : Fitness(member) > Fitness(current_best)
             THEN rf_pc' = "loop" /\ current_best' \in FittestMembers
             ELSE /\ rf_pc' = "done"
                  /\ rf_result' = current_best
                  /\ current_best' = current_best
       /\ (rf_pc = "loop" /\ current_best' # current_best) =>
             /\ current_best' \in FittestMembers
             /\ Fitness(current_best') > Fitness(current_best)]_vars

\* A call with a cap of two generations has stopped after the first one and
\* returned the initial candidate.
C33_Witness ==
    /\ rf_pc = "done"
    /\ rf_args.max_generations = 2
    /\ rf_hist.evaluated = 1
    /\ rf_result = rf_args.initial_code
    /\ Fitness(rf_hist.generation_best) = Fitness(rf_result)

----------------------------------------------------------------------------
\* CheckpointManager: id collisions and retention.

\* The last two calls of create_checkpoint got the same id, and both
\* returned.
SameSecondTwice ==
    /\ pc = 0
    /\ cur.outcome = "returned" /\ all_clean
    /\ Len(calls) >= 2
    /\ calls[Len(calls) - 1] = calls[Len(calls)]

\* C34: after two calls that got the same second-resolution id, 'latest'
\* names that id, the one snapshot file of that id holds the data of the
\* second call, and a restore of that id returns what the second call saved;
\* no step of a call whose snapshot file is already on disk adds a file.
C34_SameSecondOverwrites ==
    /\ [](SameSecondTwice =>
            /\ latest = LatestOf(cur.id)
            /\ files[cur.id] = CompleteFile(cur.data)
            /\ restore_from_checkpoint(IdArg(cur.id), files, latest)
                  = [kind |-> "state", tasks |-> cur.tasks,
                     global_state |-> cur.global_state])
    /\ [][(pc > 0 /\ files[cur.id].st # "absent")
             => glob(files') \subseteq glob(files)]_vars

\* Two calls in the same second, the second with other data than the empty
\* task list, have returned and left one snapshot file.
C34_Witness ==
    /\ SameSecondTwice
    /\ Len(calls) = 2
    /\ cur.tasks # <<>>
    /\ glob(files) = {cur.id}

\* C35: after a create_checkpoint that returned, whatever was on disk
\* before, loading the latest gives the checkpoint this call wrote.
C35_LatestSurvivesCleanup ==
    (pc = 0 /\ cur.outcome = "returned")
    => load_checkpoint(LatestArg, files, latest) = [kind |-> "data", data |-> cur.data]

\* A create has returned after its cleanup deleted an older snapshot: the
\* directory held more than max_checkpoints files.
C35_Witness ==
    /\ pc = 0 /\ cur.outcome = "returned" /\ ~cur.delfail
    /\ Len(calls) > max_checkpoints
    /\ Cardinality(glob(files)) = max_checkpoints
    /\ \E i \in Range(calls) : files[i].st = "absent"
    /\ load_checkpoint(LatestArg, files, latest).kind = "data"

----------------------------------------------------------------------------
\* The episode log of a dispatch cycle.

\* The events of the stages, in pipeline order.
StageEvents ==
    <<"context_gathered", "candidates_generated", "verification_complete",
      "consensus_reached">>

\* The log holds the first events of the pipeline, each once and in order.
IsStagePrefix(events) ==
    /\ Len(events) <= Len(StageEvents)
    /\ \A i \in 1..Len(events) : events[i] = StageEvents[i]

\* The episode ids handed out so far.
EpisodeIds == {uuid4(i) : i \in 1..e_uuid}

\* C36: the event log of every episode is a prefix of context_gathered,
\* candidates_generated, verification_complete, consensus_reached (so each
\* stage adds at most one event, in this order, and a failed dispatch leaves
\* a prefix); an episode that was closed gets no further event, and an
\* episode that was removed does not come back.
C36_EventLogFollowsStages ==
    /\ [](\A e \in DOMAIN active_episodes : IsStagePrefix(active_episodes[e].events))
    /\ [][\A e \in EpisodeIds :
            /\ (e \in DOMAIN active_episodes /\ active_episodes[e].status # "active"
                  /\ e \in DOMAIN active_episodes')
               => active_episodes'[e].events = active_episodes[e].events
            /\ e \notin DOMAIN active_episodes => e \notin DOMAIN active_episodes']_vars

\* A dispatch failed in the vote stage: its episode holds the events of the
\* three stages before it; and the episode of another task was closed as a
\* failure with all four events while its store failed.
C36_Witness ==
    \E t, u \in Tasks :
       /\ At(t, "dispatched") /\ ~d_run[t].result.success
       /\ active_episodes[d_run[t].episode_id].events = SubSeq(StageEvents, 1, 3)
       /\ At(u, "except")
       /\ active_episodes[d_run[u].episode_id].status = "failure"
       /\ active_episodes[d_run[u].episode_id].events = StageEvents

----------------------------------------------------------------------------
\* StateBus: the disk record, late subscribers and the order of delivery.

\* The messages in the in-memory list or on a queue.
Visible(list, qs) ==
    Range(list) \cup UNION {Range(qs[q]) : q \in 1..Len(qs)}

\* C37: when a message becomes visible, in the in-memory list or on a queue,
\* its file is on disk; and a publish whose disk write failed raised, added
\* the message neither to the list nor to any queue and left both as they
\* were.
C37_RecordBeforeMemory ==
    /\ [][\A m \in Visible(message_queue', queues') \ Visible(message_queue, queues) :
             m.id \in message_files']_vars
    /\ [](b_obs.op = "publish" =>
            /\ b_obs.raised
            /\ b_obs.message \notin Visible(message_queue, queues)
            /\ b_obs.memory = <<message_queue, queues>>)

\* A broadcast failed on the disk, leaving a file behind, while a role was
\* subscribed and an earlier message was in the list and on its queue.
C37_Witness ==
    /\ b_obs.op = "publish"
    /\ b_obs.message.recipient = "none"
    /\ b_obs.message.id \in message_files
    /\ subscribers # <<>>
    /\ message_queue # <<>>
    /\ \E q \in 1..Len(queues) : queues[q] # <<>>

\* The place of the message in the in-memory list (0 when it is not there).
PlaceInList(m) ==
    IF m \in Range(message_queue)
    THEN CHOOSE i \in 1..Len(message_queue) : message_queue[i] = m
    ELSE 0

\* C38: a message for a recipient that had no queue when it was published
\* has its file and is in the in-memory list, but is on no queue, whatever
\* subscribes later; a queue holds only messages published while its role
\* was subscribed.
C38_NoDeliveryBeforeSubscribe ==
    /\ \A i \in 1..Len(published) :
          LET p == published[i]
          IN (p.message.recipient # "none" /\ p.message.recipient \notin p.subscribed)
             => /\ p.message.id \in message_files
                /\ p.message \in Range(message_queue)
                /\ \A q \in 1..Len(queues) : Count(queues[q], p.message) = 0
    /\ \A role \in DOMAIN subscribers :
          \A m \in Range(queues[subscribers[role]]) :
             role \in published[m.id].subscribed

\* A message was published to a role without a queue; the role subscribed
\* afterwards and its queue is empty.
C38_Witness ==
    \E i \in 1..Len(published) :
       LET p == published[i]
       IN /\ p.message.recipient # "none"
          /\ p.message.recipient \notin p.subscribed
          /\ p.message.recipient \in DOMAIN subscribers
          /\ queues[subscribers[p.message.recipient]] = <<>>

\* C39: every queue holds its messages in the order of the in-memory list,
\* each at most once: two queues that both got two broadcasts hold them in
\* the same order.
C39_QueuesFollowListOrder ==
    \A q \in 1..Len(queues) :
       /\ \A i \in 1..Len(queues[q]) : PlaceInList(queues[q][i]) > 0
       /\ \A i, j \in 1..Len(queues[q]) :
             i < j => PlaceInList(queues[q][i]) < PlaceInList(queues[q][j])

\* Two roles subscribed and two broadcasts followed: both queues hold both
\* broadcasts, in the order of the list.
C39_Witness ==
    /\ Len(queues) = 2
    /\ Len(message_queue) = 2
    /\ \A i \in 1..2 : message_queue[i].recipient = "none"
    /\ \A q \in 1..2 : queues[q] = message_queue

----------------------------------------------------------------------------
\* ConsensusEngine: the votes of one judge response.

\* C40: in the result of a consensus_vote every vote carries the score read
\* from the judge's one response, the winner is the first of the candidates
\* voted on, in input order, and winning_score is that common score.
C40_VotesTieFirstWins ==
    (vt_pc = "done" /\ vt_result.kind = "ok") =>
       LET result == vt_result.value
           common == extract_score(vt_judge.content)
       IN /\ Len(result.all_votes) = Len(vt_passing)
          /\ \A k \in 1..Len(result.all_votes) :
                /\ result.all_votes[k].score = common
                /\ result.all_votes[k].candidate_id = vt_passing[k].id
          /\ result.winner_candidate_id = vt_passing[1].id
          /\ result.winning_score = common

\* A vote over two passing candidates, the first input candidate not among
\* them: the second input candidate won at the judge's score of 0.75.
C40_Witness ==
    /\ vt_pc = "done" /\ vt_result.kind = "ok"
    /\ Len(vt_args.candidates) = 3
    /\ Len(vt_passing) = 2
    /\ vt_passing[1] = vt_args.candidates[2]
    /\ vt_result.value.winner_candidate_id = vt_args.candidates[2].id
    /\ vt_result.value.winning_score = 75

====
